---------------------------- MODULE Spec2Model ----------------------------
(***************************************************************************)
(* A model of taracode's conversation loop (internal/assistant):           *)
(* ProcessMessage in its streaming and buffered flavours, the tool-call    *)
(* extractor parseToolCalls with cleanResponse, the tool registry and the  *)
(* storage manager's AddMessage.                                           *)
(*                                                                         *)
(* Text.  A Go string is modelled as a sequence of units.  A unit is a     *)
(* TLA+ string standing for itself: one character for every character the  *)
(* code looks at (braces, brackets, quotes, colon, comma, backslash,       *)
(* white space, and the letters of the think tags), or a whole word of     *)
(* plain characters ("tool", "read_file", "a.go").  Word units never       *)
(* follow a backslash, two numerals are never adjacent, and no word is     *)
(* spelled letter by letter, so a text has one decomposition and a         *)
(* pattern matches the unit sequence exactly when it matches the string.   *)
(***************************************************************************)
EXTENDS Integers, Sequences, FiniteSets, TLC

(***************************************************************************)
(* Bounds of the model.                                                    *)
(***************************************************************************)
\* The most iterations of a turn on which the model gives its first response
\* before it changes to its second, which it then repeats.
MaxLead == 1
\* Number of ProcessMessage calls on one Assistant.
MaxTurns == 1
\* Number of fragments concatenated into an input of the extractor.
MaxFragments == 2
\* Number of pieces concatenated into a stream for the filter.
MaxPieces == 3
\* Number of Flush calls on one filter.
MaxFlushes == 2
\* Number of NewSession and LoadSession calls on one Assistant.
MaxSessionOps == 2

\* the NewSession and LoadSession calls after New
MaxIdOps == 3
\* Goroutines that call one Spinner, calls of each, and Starts that go through.
MaxCallers == 3
MaxCallsEach == 2
MaxStarts == 2
\* Number of AddMessage calls on one session.
MaxAdds == 102
\* Number of ProcessMessage calls on one Assistant, where turns follow each other.
MaxFollowing == 2
\* Number of withRetry calls.
MaxRuns == 3
\* Number of file tool calls on one path, and the largest line number passed.
MaxFsOps == 2
MaxLine == 4

(***************************************************************************)
(* Program constants.                                                      *)
(***************************************************************************)
maxIterations == 10
MaxHistoryLength == 100
\* const maxRetries, initialBackoff, maxBackoff (seconds)
maxRetries == 3
initialBackoff == 1
maxBackoff == 30

(***************************************************************************)
(* Strings.                                                                *)
(***************************************************************************)
QUOTE == "\""
BSLASH == "\\"
NL == "\n"
TAB == "\t"
CR == "\r"
FF == "\f"

\* Go regexp \s: [\t\n\f\r ]
RegexSpace == {" ", TAB, NL, FF, CR}
\* encoding/json white space
JsonSpace == {" ", TAB, NL, CR}
\* strings.TrimSpace (unicode.IsSpace) on the units of the model
UnicodeSpace == {" ", TAB, NL, FF, CR}

Minimum(S) == CHOOSE x \in S : \A y \in S : x <= y

\* the unit at position i, "" outside the text
At(s, i) == IF i >= 1 /\ i <= Len(s) THEN s[i] ELSE ""

\* s[i:] of Go with a 1-based i
Drop(s, i) == SubSeq(s, i, Len(s))

\* lit occurs in s at position i
HasPrefixAt(s, i, lit) ==
    /\ i >= 1
    /\ i + Len(lit) - 1 <= Len(s)
    /\ \A k \in 1..Len(lit) : s[i + k - 1] = lit[k]

\* strings.Index from position i on: the first position >= i where lit occurs, 0 when none
IndexFrom(s, lit, i) ==
    LET found == {p \in i..Len(s) : HasPrefixAt(s, p, lit)}
    IN  IF found = {} THEN 0 ELSE Minimum(found)

\* the first position >= i whose unit is not in class, Len(s)+1 when none
RECURSIVE SkipClass(_, _, _)
SkipClass(s, i, class) ==
    IF i <= Len(s) /\ s[i] \in class THEN SkipClass(s, i + 1, class) ELSE i

\* the last position <= i whose unit is not in class, 0 when none
RECURSIVE BackSkipClass(_, _, _)
BackSkipClass(s, i, class) ==
    IF i >= 1 /\ s[i] \in class THEN BackSkipClass(s, i - 1, class) ELSE i

\* the first position >= i whose unit is in class, 0 when none
RECURSIVE FindClass(_, _, _)
FindClass(s, i, class) ==
    IF i > Len(s) THEN 0
    ELSE IF s[i] \in class THEN i
    ELSE FindClass(s, i + 1, class)

TrimLeft(s) == Drop(s, SkipClass(s, 1, UnicodeSpace))

TrimRight(s) == SubSeq(s, 1, BackSkipClass(s, Len(s), UnicodeSpace))

TrimSpace(s) == TrimRight(TrimLeft(s))

RECURSIVE Concat(_)
Concat(ss) == IF ss = <<>> THEN <<>> ELSE ss[1] \o Concat(Tail(ss))

Digit(d) ==
    CASE d = 0 -> "0" [] d = 1 -> "1" [] d = 2 -> "2" [] d = 3 -> "3" [] d = 4 -> "4"
      [] d = 5 -> "5" [] d = 6 -> "6" [] d = 7 -> "7" [] d = 8 -> "8" [] d = 9 -> "9"

\* fmt's %d of a non-negative int
RECURSIVE Itoa(_)
Itoa(n) == IF n < 10 THEN <<Digit(n)>> ELSE Itoa(n \div 10) \o <<Digit(n % 10)>>

(***************************************************************************)
(* cleanResponse.                                                          *)
(***************************************************************************)
ThinkOpen == <<"<", "t", "h", "i", "n", "k", ">">>
ThinkClose == <<"<", "/", "t", "h", "i", "n", "k", ">">>

\* variant: an opening tag without its closing tag cuts the text
NoFurtherBlockCut(s, p) == IF p = 0 THEN s ELSE SubSeq(s, 1, p - 1)

\* thinkRe finds no further match in s (p: the next "<think>", 0 when none)
NoFurtherBlock(s, p) == s

\* thinkRe.ReplaceAllString(response, ""): (?s)<think>.*?</think>, leftmost, non-greedy,
\* matches not overlapping
RECURSIVE RemoveThinkBlocks(_)
RemoveThinkBlocks(s) ==
    LET p == IndexFrom(s, ThinkOpen, 1)
        q == IF p = 0 THEN 0 ELSE IndexFrom(s, ThinkClose, p + Len(ThinkOpen))
    IN  IF q = 0 THEN NoFurtherBlock(s, p)
        ELSE SubSeq(s, 1, p - 1) \o RemoveThinkBlocks(Drop(s, q + Len(ThinkClose)))

cleanResponse(response) ==
    LET cleaned == RemoveThinkBlocks(response)
        idx == IndexFrom(cleaned, ThinkClose, 1)
    IN  TrimSpace(IF idx # 0 THEN Drop(cleaned, idx + 8) ELSE cleaned)


(***************************************************************************)
(* encoding/json, as far as parseToolCalls uses it: json.Unmarshal into a  *)
(* ToolCall or a []ToolCall, and json.Marshal of a ToolCall.  A decoded    *)
(* value is kept with its canonical text (what json.Marshal writes for it: *)
(* no white space, the keys of a map sorted and unique, strings escaped    *)
(* anew), so two decoded values are equal exactly when their canonical     *)
(* texts are.                                                              *)
(***************************************************************************)
Numerals == {"0", "1", "2", "3", "5", "10", "20"}
Literals == {"true", "false", "null"}
ControlUnits == {NL, TAB, CR, FF}
EscapeUnits == {QUOTE, BSLASH, "/", "n", "t", "r", "f"}

Unescape(u) ==
    CASE u = "n" -> NL [] u = "t" -> TAB [] u = "r" -> CR [] u = "f" -> FF [] OTHER -> u

\* The units of the model in byte order, for the sorted keys json.Marshal writes.
SortedUnits ==
    <<NL, " ", QUOTE, ",", "/", "0", "1", "10", "2", "20", "3", "5", ":", "<", ">",
      "Hi", "[", BSLASH, "]", "a.go", "b.go", "command", "content", "end_line",
      "file_path", "frobnicate", "git_status", "h", "i", "k", "ls", "n", "params",
      "pattern", "read_file", "start_line", "t", "tool", "{", "}">>

UnitRank(u) == CHOOSE r \in 1..Len(SortedUnits) : SortedUnits[r] = u

RECURSIVE KeyLess(_, _)
KeyLess(a, b) ==
    IF a = <<>> THEN b # <<>>
    ELSE IF b = <<>> THEN FALSE
    ELSE IF a[1] = b[1] THEN KeyLess(Tail(a), Tail(b))
    ELSE UnitRank(a[1]) < UnitRank(b[1])

\* encodeState.string with escapeHTML: the units json.Marshal writes for one unit of a string
EscapeUnit(u) ==
    CASE u = QUOTE -> <<BSLASH, QUOTE>>
      [] u = BSLASH -> <<BSLASH, BSLASH>>
      [] u = NL -> <<BSLASH, "n">>
      [] u = TAB -> <<BSLASH, "t">>
      [] u = CR -> <<BSLASH, "r">>
      [] u = FF -> <<"\\u000c">>
      [] u = "<" -> <<"\\u003c">>
      [] u = ">" -> <<"\\u003e">>
      [] u = "&" -> <<"\\u0026">>
      [] OTHER -> <<u>>

RECURSIVE EscapeAll(_)
EscapeAll(str) == IF str = <<>> THEN <<>> ELSE EscapeUnit(str[1]) \o EscapeAll(Tail(str))

MarshalString(str) == <<QUOTE>> \o EscapeAll(str) \o <<QUOTE>>

JsonFail ==
    [ok |-> FALSE, pos |-> 0, kind |-> "", canon |-> <<>>, str |-> <<>>,
     fields |-> <<>>, elems |-> <<>>]

JsonValue(p, k, c, st, fs, es) ==
    [ok |-> TRUE, pos |-> p, kind |-> k, canon |-> c, str |-> st, fields |-> fs, elems |-> es]

\* A string literal whose opening quote is at j - 1: its decoded units and the
\* position after the closing quote.  A literal control character, an unknown
\* escape or a missing closing quote is a syntax error.
RECURSIVE ScanString(_, _, _)
ScanString(s, j, acc) ==
    IF j > Len(s) THEN [ok |-> FALSE, pos |-> 0, str |-> <<>>]
    ELSE IF s[j] = QUOTE THEN [ok |-> TRUE, pos |-> j + 1, str |-> acc]
    ELSE IF s[j] = BSLASH THEN
        IF j + 1 <= Len(s) /\ s[j + 1] \in EscapeUnits
        THEN ScanString(s, j + 2, Append(acc, Unescape(s[j + 1])))
        ELSE [ok |-> FALSE, pos |-> 0, str |-> <<>>]
    ELSE IF s[j] \in ControlUnits THEN [ok |-> FALSE, pos |-> 0, str |-> <<>>]
    ELSE ScanString(s, j + 1, Append(acc, s[j]))

LeafField(f) == [key |-> f.key, kind |-> f.kind, canon |-> f.canon, str |-> f.str]

MakeField(key, v) ==
    [key |-> key, kind |-> v.kind, canon |-> v.canon, str |-> v.str,
     sub |-> [n \in 1..Len(v.fields) |-> LeafField(v.fields[n])]]

\* A map after m[key] = value: the fields stay sorted by key, a repeated key keeps
\* its last value.
RECURSIVE PutField(_, _)
PutField(fs, f) ==
    IF fs = <<>> THEN <<f>>
    ELSE IF fs[1].key = f.key THEN <<f>> \o Tail(fs)
    ELSE IF KeyLess(f.key, fs[1].key) THEN <<f>> \o fs
    ELSE <<fs[1]>> \o PutField(Tail(fs), f)

RECURSIVE JoinCanon(_)
JoinCanon(cs) ==
    IF cs = <<>> THEN <<>>
    ELSE IF Len(cs) = 1 THEN cs[1]
    ELSE cs[1] \o <<",">> \o JoinCanon(Tail(cs))

ObjectCanon(fs) ==
    <<"{">> \o JoinCanon([n \in 1..Len(fs) |-> MarshalString(fs[n].key) \o <<":">> \o fs[n].canon])
            \o <<"}">>

ArrayCanon(es) == <<"[">> \o JoinCanon([n \in 1..Len(es) |-> es[n].canon]) \o <<"]">>

MakeElem(v) == [kind |-> v.kind, canon |-> v.canon, str |-> v.str, fields |-> v.fields]

RECURSIVE ParseValue(_, _)
RECURSIVE ParseMembers(_, _, _)
RECURSIVE ParseElems(_, _, _)

\* After a member's value v, e is the position of the next unit that is no white
\* space: a comma and the next member, or the closing brace.
MemberNext(s, fs, e) ==
    IF e > Len(s) THEN JsonFail
    ELSE IF s[e] = "," THEN ParseMembers(s, SkipClass(s, e + 1, JsonSpace), fs)
    ELSE IF s[e] = "}" THEN JsonValue(e + 1, "obj", ObjectCanon(fs), <<>>, fs, <<>>)
    ELSE JsonFail

MemberValue(s, acc, key, v) ==
    IF ~v.ok THEN JsonFail
    ELSE MemberNext(s, PutField(acc, MakeField(key, v)), SkipClass(s, v.pos, JsonSpace))

\* After a member's key, c is the position of the next unit that is no white space.
MemberColon(s, acc, key, c) ==
    IF c > Len(s) \/ s[c] # ":" THEN JsonFail
    ELSE MemberValue(s, acc, key, ParseValue(s, c + 1))

MemberKey(s, acc, k) ==
    IF ~k.ok THEN JsonFail
    ELSE MemberColon(s, acc, k.str, SkipClass(s, k.pos, JsonSpace))

\* The members of an object from the key at j on, acc the members read so far.
ParseMembers(s, j, acc) ==
    IF j > Len(s) \/ s[j] # QUOTE THEN JsonFail
    ELSE MemberKey(s, acc, ScanString(s, j + 1, <<>>))

ElemNext(s, es, e) ==
    IF e > Len(s) THEN JsonFail
    ELSE IF s[e] = "," THEN ParseElems(s, e + 1, es)
    ELSE IF s[e] = "]" THEN JsonValue(e + 1, "arr", ArrayCanon(es), <<>>, <<>>, es)
    ELSE JsonFail

ElemValue(s, acc, v) ==
    IF ~v.ok THEN JsonFail
    ELSE ElemNext(s, Append(acc, MakeElem(v)), SkipClass(s, v.pos, JsonSpace))

\* The elements of an array from the value at j on, acc the elements read so far.
ParseElems(s, j, acc) == ElemValue(s, acc, ParseValue(s, j))

StringValue(r) ==
    IF r.ok THEN JsonValue(r.pos, "str", MarshalString(r.str), r.str, <<>>, <<>>)
    ELSE JsonFail

\* The value whose first unit is at i.
ValueAt(s, i) ==
    IF i > Len(s) THEN JsonFail
    ELSE IF s[i] = QUOTE THEN StringValue(ScanString(s, i + 1, <<>>))
    ELSE IF s[i] = "{" THEN
        IF At(s, SkipClass(s, i + 1, JsonSpace)) = "}"
        THEN JsonValue(SkipClass(s, i + 1, JsonSpace) + 1, "obj", <<"{", "}">>, <<>>, <<>>, <<>>)
        ELSE ParseMembers(s, SkipClass(s, i + 1, JsonSpace), <<>>)
    ELSE IF s[i] = "[" THEN
        IF At(s, SkipClass(s, i + 1, JsonSpace)) = "]"
        THEN JsonValue(SkipClass(s, i + 1, JsonSpace) + 1, "arr", <<"[", "]">>, <<>>, <<>>, <<>>)
        ELSE ParseElems(s, SkipClass(s, i + 1, JsonSpace), <<>>)
    ELSE IF s[i] \in Numerals THEN JsonValue(i + 1, "num", <<s[i]>>, <<>>, <<>>, <<>>)
    ELSE IF s[i] \in Literals THEN
        JsonValue(i + 1, IF s[i] = "null" THEN "null" ELSE "bool", <<s[i]>>, <<>>, <<>>, <<>>)
    ELSE JsonFail

\* One JSON value starting at or after i0 (white space skipped); pos is the
\* position after its last unit.
ParseValue(s, i0) == ValueAt(s, SkipClass(s, i0, JsonSpace))

WholeDocument(data, v) ==
    IF v.ok /\ SkipClass(data, v.pos, JsonSpace) > Len(data) THEN v ELSE JsonFail

\* checkValid: data is one JSON value with nothing but white space around it
ParseDocument(data) == WholeDocument(data, ParseValue(data, 1))

ZeroToolCall == [Tool |-> <<>>, Params |-> <<"null">>, Fields |-> <<>>]

FieldIndex(fs, key) ==
    IF \E n \in 1..Len(fs) : fs[n].key = key
    THEN CHOOSE n \in 1..Len(fs) : fs[n].key = key
    ELSE 0

\* The decoder's work on one value for a ToolCall struct {Tool string `json:"tool"`;
\* Params map[string]interface{} `json:"params"`}: null leaves the zero value, a
\* value that is no object is a type error, and so is a tool that is no string or
\* a params that is no object; null fields are left alone, other keys are ignored.
DecodeToolCall(kind, fields) ==
    IF kind = "null" THEN [ok |-> TRUE, call |-> ZeroToolCall]
    ELSE IF kind # "obj" THEN [ok |-> FALSE, call |-> ZeroToolCall]
    ELSE
        LET t == FieldIndex(fields, <<"tool">>)
            p == FieldIndex(fields, <<"params">>)
            tOk == t = 0 \/ fields[t].kind \in {"str", "null"}
            pOk == p = 0 \/ fields[p].kind \in {"obj", "null"}
            hasT == t # 0 /\ fields[t].kind = "str"
            hasP == p # 0 /\ fields[p].kind = "obj"
        IN  [ok |-> tOk /\ pOk,
             call |-> [Tool |-> IF hasT THEN fields[t].str ELSE <<>>,
                       Params |-> IF hasP THEN fields[p].canon ELSE <<"null">>,
                       Fields |-> IF hasP THEN fields[p].sub ELSE <<>>]]

DecodeDocument(v) ==
    IF ~v.ok THEN [ok |-> FALSE, call |-> ZeroToolCall]
    ELSE DecodeToolCall(v.kind, v.fields)

\* json.Unmarshal(data, &toolCall)
UnmarshalToolCall(data) == DecodeDocument(ParseDocument(data))

DecodeElements(v) ==
    IF ~v.ok \/ v.kind \notin {"arr", "null"} THEN [ok |-> FALSE, calls |-> <<>>]
    ELSE [ok |-> \A n \in 1..Len(v.elems) :
                     DecodeToolCall(v.elems[n].kind, v.elems[n].fields).ok,
          calls |-> [n \in 1..Len(v.elems) |->
                        DecodeToolCall(v.elems[n].kind, v.elems[n].fields).call]]

\* json.Unmarshal(data, &arrayToolCalls)
UnmarshalToolCalls(data) == DecodeElements(ParseDocument(data))

\* json.Marshal(toolCall)
MarshalToolCall(tc) ==
    <<"{", QUOTE, "tool", QUOTE, ":">> \o MarshalString(tc.Tool)
        \o <<",", QUOTE, "params", QUOTE, ":">> \o tc.Params \o <<"}">>

(***************************************************************************)
(* StreamFilter.                                                           *)
(***************************************************************************)
\* strings.HasSuffix(s, suffix)
HasSuffix(s, suffix) ==
    Len(s) >= Len(suffix) /\ SubSeq(s, Len(s) - Len(suffix) + 1, Len(s)) = suffix

\* strings.HasPrefix(s, prefix)
HasPrefix(s, prefix) == Len(s) >= Len(prefix) /\ SubSeq(s, 1, Len(prefix)) = prefix

\* "<think"
ThinkPartial == SubSeq(ThinkOpen, 1, 6)

NewStreamFilter == [buffer |-> <<>>, inThinkTag |-> FALSE, fullContent |-> <<>>]

\* The loop of Process keeps a run r: the filter's buffer and inThinkTag, the
\* display built so far, and what the model observes of it: for each buffered
\* unit whether the filter was inside a think block when it received it (marks),
\* and whether such a unit went to display (leak).
Run(f, ms) ==
    [buffer |-> f.buffer, inThinkTag |-> f.inThinkTag, display |-> <<>>, marks |-> ms,
     leak |-> FALSE]

\* if f.inThinkTag { f.buffer.WriteRune(char); if strings.HasSuffix(...) {...} }
InsideThink(r, bufStr) ==
    IF HasSuffix(bufStr, ThinkClose)
    THEN [r EXCEPT !.inThinkTag = FALSE, !.buffer = <<>>, !.marks = <<>>]
    ELSE [r EXCEPT !.buffer = bufStr, !.marks = Append(@, TRUE)]

\* variant: no lookahead, a buffer that is not yet "<think>" is displayed at once
OutsideThinkNoLookahead(r, bufStr) ==
    IF bufStr = ThinkOpen
    THEN [r EXCEPT !.inThinkTag = TRUE, !.buffer = <<>>, !.marks = <<>>]
    ELSE [r EXCEPT !.display = @ \o bufStr, !.buffer = <<>>, !.marks = <<>>]

\* the else branch: f.buffer.WriteRune(char); bufStr := f.buffer.String(); ...
OutsideThink(r, bufStr) ==
    IF HasPrefix(ThinkOpen, bufStr)
    THEN IF bufStr = ThinkOpen
         THEN [r EXCEPT !.inThinkTag = TRUE, !.buffer = <<>>, !.marks = <<>>]
         ELSE [r EXCEPT !.buffer = bufStr, !.marks = Append(@, FALSE)]
    ELSE IF HasPrefix(ThinkPartial, bufStr)
    THEN [r EXCEPT !.buffer = bufStr, !.marks = Append(@, FALSE)]
    ELSE IF Len(bufStr) > 0 /\ bufStr[1] = "<" /\ Len(bufStr) < 7
    THEN [r EXCEPT !.buffer = bufStr, !.marks = Append(@, FALSE)]
    ELSE [r EXCEPT !.display = @ \o bufStr, !.buffer = <<>>, !.marks = <<>>,
                   !.leak = @ \/ (\E n \in 1..Len(r.marks) : r.marks[n])]

\* one round of: for _, char := range chunk
ProcessChar(r, char) ==
    IF r.inThinkTag THEN InsideThink(r, Append(r.buffer, char))
    ELSE OutsideThink(r, Append(r.buffer, char))

RECURSIVE ProcessChars(_, _)
ProcessChars(r, chunk) ==
    IF chunk = <<>> THEN r ELSE ProcessChars(ProcessChar(r, chunk[1]), Tail(chunk))

(***************************************************************************)
(* parseToolCalls.                                                         *)
(***************************************************************************)
ToolKey == <<QUOTE, "tool", QUOTE>>
ParamsKey == <<QUOTE, "params", QUOTE>>

\* jsonPattern anchored at i:
\*   \{\s*"tool"\s*:\s*"([^"]+)"\s*,\s*"params"\s*:\s*(\{[^{}]*\})\s*\}
\* The position of the match's last unit, 0 when the pattern does not match at i.
\* Every repetition is followed by a unit outside its class, so the match is unique.
JsonPatternAt(s, i) ==
    LET j1 == SkipClass(s, i + 1, RegexSpace)
        j2 == SkipClass(s, j1 + 3, RegexSpace)
        j3 == SkipClass(s, j2 + 1, RegexSpace)
        k  == FindClass(s, j3 + 1, {QUOTE})
        j4 == SkipClass(s, k + 1, RegexSpace)
        j5 == SkipClass(s, j4 + 1, RegexSpace)
        j6 == SkipClass(s, j5 + 3, RegexSpace)
        j7 == SkipClass(s, j6 + 1, RegexSpace)
        m  == FindClass(s, j7 + 1, {"{", "}"})
        j8 == SkipClass(s, m + 1, RegexSpace)
    IN  IF /\ At(s, i) = "{"
           /\ HasPrefixAt(s, j1, ToolKey)
           /\ At(s, j2) = ":"
           /\ At(s, j3) = QUOTE
           /\ k > j3 + 1
           /\ At(s, j4) = ","
           /\ HasPrefixAt(s, j5, ParamsKey)
           /\ At(s, j6) = ":"
           /\ At(s, j7) = "{"
           /\ m # 0
           /\ s[m] = "}"
           /\ At(s, j8) = "}"
        THEN j8
        ELSE 0

\* Every position where jsonPattern matches, with the match's end: [start, end].
JsonMatches(s) ==
    {m \in {[start |-> p, end |-> JsonPatternAt(s, p)] : p \in 1..Len(s)} : m.end # 0}

\* The one of ms that starts first; start = 0 when ms is empty.
FirstOf(ms) ==
    IF ms = {} THEN [start |-> 0, end |-> 0]
    ELSE CHOOSE m \in ms : \A o \in ms : m.start <= o.start

RECURSIVE Leftmost(_, _)

LeftmostFrom(ms, m) ==
    IF m.start = 0 THEN <<>> ELSE <<m>> \o Leftmost(ms, m.end + 1)

\* Those of ms from position i on, from left to right and not overlapping.
Leftmost(ms, i) == LeftmostFrom(ms, FirstOf({m \in ms : m.start >= i}))

\* jsonPattern.FindAllStringSubmatch(s, -1) from position i on: the matches from
\* left to right, not overlapping, each as [start, end]
FindAllJson(s, i) == Leftmost(JsonMatches(s), i)

\* arrayPattern anchored at i:  \[\s*(\{[^[\]]*"tool"[^[\]]*\}\s*,?\s*)+\]
\* No unit of a match but its first and last is a bracket, so the match ends at the
\* first bracket after i; and since [^[\]]* takes braces and commas, the groups
\* match exactly when one group does.  The position of the closing bracket, or 0.
ArrayPatternAt(s, i) ==
    LET j == FindClass(s, i + 1, {"[", "]"})
        b == SkipClass(s, i + 1, RegexSpace)
        e1 == BackSkipClass(s, j - 1, RegexSpace)
        e2 == IF At(s, e1) = "," THEN BackSkipClass(s, e1 - 1, RegexSpace) ELSE e1
    IN  IF /\ At(s, i) = "["
           /\ j # 0
           /\ s[j] = "]"
           /\ At(s, b) = "{"
           /\ b < e2
           /\ At(s, e2) = "}"
           /\ IndexFrom(SubSeq(s, b + 1, e2 - 1), ToolKey, 1) # 0
        THEN j
        ELSE 0

\* arrayPattern.FindString(s) from position i on: the leftmost match, as
\* [start, end], start = 0 when there is none
FindArray(s, i) ==
    FirstOf({m \in {[start |-> p, end |-> ArrayPatternAt(s, p)] : p \in i..Len(s)} : m.end # 0})

\* The key that marks a singular match as seen: the matched text itself.
SingularKey(cleaned, m) == SubSeq(cleaned, m.start, m.end)

\* The key that marks an array element as seen: json.Marshal of the decoded call.
ArrayKey(tc) == MarshalToolCall(tc)

\* if toolCall.Tool != "" && !seen[key] { toolCalls = append(...); seen[key] = true }
AddCall(acc, call, key) ==
    IF call.Tool # <<>> /\ key \notin acc.seen
    THEN [calls |-> Append(acc.calls, call), seen |-> acc.seen \cup {key}]
    ELSE acc

\* One round of the loop over matches: d is what json.Unmarshal made of the match.
AddSingular(acc, d, key) == IF d.ok THEN AddCall(acc, d.call, key) ELSE acc

\* The loop over matches: acc is [calls, seen].
RECURSIVE CollectSingular(_, _, _)
CollectSingular(cleaned, matches, acc) ==
    IF matches = <<>> THEN acc
    ELSE CollectSingular(cleaned, Tail(matches),
             AddSingular(acc,
                         UnmarshalToolCall(SubSeq(cleaned, matches[1].start, matches[1].end)),
                         SingularKey(cleaned, matches[1])))

\* The loop over arrayToolCalls.
RECURSIVE CollectArray(_, _)
CollectArray(calls, acc) ==
    IF calls = <<>> THEN acc
    ELSE CollectArray(Tail(calls), AddCall(acc, calls[1], ArrayKey(calls[1])))

ArrayCollect(acc, decoded) ==
    IF decoded.ok THEN CollectArray(decoded.calls, acc) ELSE acc

ArrayDecode(cleaned, acc, arrayMatch) ==
    IF arrayMatch.start = 0 THEN acc
    ELSE ArrayCollect(acc, UnmarshalToolCalls(SubSeq(cleaned, arrayMatch.start, arrayMatch.end)))

\* The array pass: arrayPattern.FindString, json.Unmarshal and the loop over its calls.
ArrayPass(cleaned, acc) == ArrayDecode(cleaned, acc, FindArray(cleaned, 1))

\* if len(toolCalls) > 0 { if idx := jsonPattern.FindStringIndex(cleaned); ... }
TextBefore(cleaned, matches, toolCalls) ==
    IF Len(toolCalls) > 0
    THEN IF matches # <<>> /\ matches[1].start > 1
         THEN TrimSpace(SubSeq(cleaned, 1, matches[1].start - 1))
         ELSE <<>>
    ELSE cleaned

Extracted(cleaned, matches, toolCalls) ==
    [calls |-> toolCalls, text |-> TextBefore(cleaned, matches, toolCalls)]

ParseMatches(cleaned, matches) ==
    Extracted(cleaned, matches,
              ArrayPass(cleaned,
                        CollectSingular(cleaned, matches, [calls |-> <<>>, seen |-> {}])).calls)

ParseCleaned(cleaned) == ParseMatches(cleaned, FindAllJson(cleaned, 1))

parseToolCalls(response) == ParseCleaned(cleanResponse(response))

(***************************************************************************)
(* The tool registry and the one executor the model's responses call.      *)
(***************************************************************************)
RegisteredTools ==
    {"read_file", "write_file", "append_file", "edit_file", "insert_lines",
     "replace_lines", "delete_lines", "copy_file", "move_file", "delete_file",
     "create_directory", "list_files", "find_files", "execute_command",
     "search_files", "git_status", "git_diff", "git_log", "git_add", "git_commit",
     "git_branch"}

\* The files of the working directory and their contents.
FileContent(path) ==
    CASE path = <<"a.go">> -> <<"package a">>
      [] path = <<"b.go">> -> <<"package b">>
      [] OTHER -> <<>>

FileExists(path) == path \in {<<"a.go">>, <<"b.go">>}

\* tools.ReadFile without a line range: [result, err], err = <<>> for a nil error
ReadFile(fields) ==
    LET f == FieldIndex(fields, <<"file_path">>)
    IN  IF f = 0 \/ fields[f].kind # "str"
        THEN [result |-> <<>>, err |-> <<"file_path parameter is required">>]
        ELSE IF ~FileExists(fields[f].str)
        THEN [result |-> <<>>,
              err |-> <<"failed to read file: ", "open ">> \o fields[f].str
                        \o <<": no such file or directory">>]
        ELSE [result |-> FileContent(fields[f].str), err |-> <<>>]

\* Registry.ExecuteTool(name, params, workingDir)
ExecuteTool(name, fields) ==
    IF Len(name) # 1 \/ name[1] \notin RegisteredTools
    THEN [result |-> <<>>, err |-> <<"unknown tool: ">> \o name]
    ELSE IF name = <<"read_file">> THEN ReadFile(fields)
    ELSE [result |-> <<"ok">>, err |-> <<>>]

(***************************************************************************)
(* The model's responses.                                                  *)
(***************************************************************************)
\* the string literal of the word w; the empty word has no unit
Str(w) == IF w = "" THEN <<QUOTE, QUOTE>> ELSE <<QUOTE, w, QUOTE>>

\* {"tool": "<tool>", "params": {"<key>": "<val>"}}; sp is the white space after
\* a colon or comma: <<" ">> as the system prompt writes it, <<>> for compact JSON
CallText(tool, key, val, sp) ==
    <<"{">> \o ToolKey \o <<":">> \o sp \o Str(tool) \o <<",">> \o sp \o ParamsKey \o <<":">>
        \o sp \o <<"{">> \o Str(key) \o <<":">> \o sp \o Str(val) \o <<"}", "}">>

ReadA(sp) == CallText("read_file", "file_path", "a.go", sp)
ReadB(sp) == CallText("read_file", "file_path", "b.go", sp)
Frobnicate == CallText("frobnicate", "pattern", "ls", <<" ">>)

\* a JSON array of the two read_file calls
ArrayAB(sp) == <<"[">> \o ReadA(sp) \o <<",">> \o sp \o ReadB(sp) \o <<"]">>

\* {"tool": "<tool>", "params": <params>}, params being the text of an object
CallWithParams(tool, params) ==
    <<"{">> \o ToolKey \o <<":", " ">> \o Str(tool) \o <<",", " ">> \o ParamsKey
        \o <<":", " ">> \o params \o <<"}">>

\* params with a nested object: {"opts": {"a": "b"}}
NestedParams ==
    <<"{">> \o Str("opts") \o <<":", " ", "{">> \o Str("a") \o <<":", " ">> \o Str("b")
        \o <<"}", "}">>

\* params with braces in a string: {"content": "{}"}
BraceStringParams ==
    <<"{">> \o Str("content") \o <<":", " ", QUOTE, "{", "}", QUOTE, "}">>

\* params with a literal newline and a brace in a string: {"content": "a<NL>{"}
NewlineBraceParams ==
    <<"{">> \o Str("content") \o <<":", " ", QUOTE, "a", NL, "{", QUOTE, "}">>

\* params with a literal newline in a string: {"content": "a<NL>b"}
NewlineParams ==
    <<"{">> \o Str("content") \o <<":", " ", QUOTE, "a", NL, "b", QUOTE, "}">>

WriteNewlineBrace == CallWithParams("write_file", NewlineBraceParams)
WriteNewline == CallWithParams("write_file", NewlineParams)
WriteNested == CallWithParams("write_file", NestedParams)
WriteBraces == CallWithParams("write_file", BraceStringParams)

\* the read_file call of a.go wrapped over several lines with indentation
ReadWrapped ==
    <<"{", NL, " ", " ">> \o ToolKey \o <<":", " ">> \o Str("read_file") \o <<",", NL, " ", " ">>
        \o ParamsKey \o <<":", " ", "{", NL, " ", " ", " ", " ">> \o Str("file_path")
        \o <<":", " ">> \o Str("a.go") \o <<NL, " ", " ", "}", NL, "}">>

\* an array whose element names its params before its tool
ArrayParamsFirst ==
    <<"[", "{">> \o ParamsKey \o <<":", "{">> \o Str("file_path") \o <<":">> \o Str("a.go")
        \o <<"}", ",">> \o ToolKey \o <<":">> \o Str("read_file") \o <<"}", "]">>

NoUsage == [PromptTokens |-> 0, CompletionTokens |-> 0, TotalTokens |-> 0]
SomeUsage == [PromptTokens |-> 2, CompletionTokens |-> 1, TotalTokens |-> 3]

\* A chat completion as the server produces it: the text of its first choice
\* (choices = FALSE: the response carries no choice), and the usage it reports
\* (reported = FALSE: none).
Completion(content, choices, reported, usage) ==
    [content |-> content, choices |-> choices, reported |-> reported, usage |-> usage]

Responses ==
    { Completion(<<"Hi">>, TRUE, TRUE, SomeUsage),
      Completion(ThinkOpen \o <<"Hi">> \o ThinkClose \o <<"Hi", " ">> \o ReadA(<<" ">>),
                 TRUE, FALSE, NoUsage),
      Completion(Frobnicate \o <<NL>> \o ReadB(<<" ">>), TRUE, TRUE, SomeUsage),
      Completion(ArrayAB(<<" ">>), TRUE, TRUE, SomeUsage),
      Completion(ArrayAB(<<>>), TRUE, FALSE, NoUsage),
      Completion(<<>>, FALSE, TRUE, SomeUsage) }

\* parseToolCalls(text) for every text the model answers with
ParsedResponses ==
    {[text |-> r.content, parsed |-> parseToolCalls(r.content)] : r \in Responses}

ToolResponses == {r \in Responses : r.choices /\ Len(parseToolCalls(r.content).calls) > 0}

\* What the model answers in a turn: lead on the first n iterations, rest from
\* then on.
Scripts ==
    {[lead |-> r, n |-> 0, rest |-> r] : r \in Responses}
    \cup {[lead |-> x[1], n |-> x[2], rest |-> x[3]] :
            x \in {y \in ToolResponses \X (1..MaxLead) \X Responses : y[1] # y[3]}}

ResponseAt(sc, iter) == IF iter < sc.n THEN sc.lead ELSE sc.rest

\* The chunks of a streamed completion: the deltas of its text, then the chunk
\* that carries the usage and no choice (StreamOptions.IncludeUsage).
Chunk(hasChoice, delta, hasUsage, usage) ==
    [hasChoice |-> hasChoice, delta |-> delta, hasUsage |-> hasUsage, usage |-> usage]

Chunks(r) ==
    LET h == Len(r.content) \div 2
    IN  (IF r.choices
         THEN <<Chunk(TRUE, SubSeq(r.content, 1, h), FALSE, NoUsage),
                Chunk(TRUE, Drop(r.content, h + 1), FALSE, NoUsage)>>
         ELSE <<>>)
        \o (IF r.reported THEN <<Chunk(FALSE, <<>>, TRUE, r.usage)>> ELSE <<>>)

(***************************************************************************)
(* The Assistant and ProcessMessage.                                       *)
(***************************************************************************)
VARIABLES
    streaming,        \* Assistant.streaming
    storageOn,        \* a.storage != nil && a.session != nil
    script,           \* what the model answers in each iteration of a turn
    extractions,      \* parseToolCalls of every text the model answers with
    conversation,     \* Assistant.conversation: the message history
    sessionUsage,     \* Assistant.sessionUsage
    sessionMessages,  \* the Messages of the stored session
    pc,               \* where ProcessMessage stands
    i,                \* the loop counter of ProcessMessage
    ctxExpired,       \* the request failed because the deadline of ctx (apiResponseTimeout) passed
    stream,           \* the chunks the open stream has still to deliver
    streamOpen,       \* a stream was created and not yet closed
    fullContent,      \* StreamFilter.fullContent
    fullResponse,     \* fullResponse / assistantResponse of the iteration
    toolCalls,        \* the calls parseToolCalls returned for the iteration
    idx,              \* the tool loop's position in toolCalls, from 1
    allResults,       \* the strings.Builder allResults
    lastErr,          \* what the last ProcessMessage returned; "none" before it returns
    turns,            \* ProcessMessage calls so far
    requests,         \* model requests issued in the current turn
    convAtCall,       \* the history when the current turn's ProcessMessage was called
    started,          \* the calls handed to ExecuteTool in this iteration, in order
    results,          \* the result texts of the calls that returned, in order
    running,          \* positions in toolCalls whose ExecuteTool has not returned
    executed,         \* every call handed to ExecuteTool since New, in order
    sent,             \* the Messages of the last request to the model
    phase,            \* 1, and 2 once the same turns are replayed in the other mode
    first,            \* the outcome of the first run, kept for the replay
    exIn,             \* the extractor alone: its input
    exOut,            \* the extractor alone: its output
    filter,           \* a StreamFilter: buffer, inThinkTag, fullContent
    pending,          \* the rest of the stream the filter has still to receive
    fedText,          \* the chunks passed to Process so far, concatenated
    shown,            \* the strings Process and Flush returned so far, concatenated
    marks,            \* for each unit of filter.buffer: was it received inside a think block
    leaked,           \* a returned string held a unit received inside a think block
    flushes,          \* Flush calls so far
    earlyFlush,       \* Flush was called before the end of the stream
    otherSessions,    \* the Messages of the stored sessions that are not the active one
    sessionOps,       \* NewSession and LoadSession calls so far
    sessionFile,      \* history/session_<id>.json on disk
    indexFile,        \* history/sessions.json on disk
    inMemory,         \* Manager.AddMessage: session.Messages of the session it read
    spc,              \* where Manager.AddMessage stands
    committed,        \* the stored Messages when the last AddMessage returned nil
    adds,             \* AddMessage calls so far
    rpc,              \* where withRetry stands
    attempt,          \* withRetry: the loop counter
    backoff,          \* withRetry: the next wait, in seconds
    opLog,            \* what fn returned at each call of this withRetry call
    waits,            \* the waits of this withRetry call that ran to their end, in seconds
    rctxDone,         \* ctx of withRetry is cancelled or past its deadline
    rOut,             \* what the last withRetry call that returned, returned
    runs,             \* withRetry calls so far
    fsPath,           \* what the file system holds at the path the file tools are given
    fsLog,            \* the file tool calls so far: arguments, path before and after, result
    enableSpinner,    \* a.enableSpinner
    spinning,         \* the spinners that run: started and not yet stopped
    expiry,           \* when the deadline of the turn's ctx passed: the turn and where it stood
    hasStorage,       \* a.storage != nil
    activeID,         \* m.sessionIndex.ActiveSessionID; 0 for ""
    files,            \* the ids whose session file exists and parses
    asstSession,      \* a.session.ID; 0 for a nil a.session
    lastOp,           \* the last of New, NewSession, LoadSession: its name and its error
    spinner,          \* the Spinner: running, and which Start made s.stop and s.done
    closes,           \* how often each channel was closed
    callers,          \* the goroutines that call Start and Stop, and where each stands
    goroutines,       \* the animation goroutines, one for each Start that went through
    overlapped        \* a call began while another had not returned

envVars == <<streaming, storageOn, script, extractions, enableSpinner>>
asstVars == <<conversation, sessionUsage, sessionMessages>>
iterVars == <<stream, streamOpen, fullContent, fullResponse, toolCalls, idx, allResults>>
toolObs == <<started, results, running, spinning>>
logVars == <<executed, sent>>
replayVars == <<phase, first>>
filterVars == <<filter, pending, fedText, shown, marks, leaked, flushes, earlyFlush>>
sessionVars == <<otherSessions, sessionOps>>
storeVars == <<sessionFile, indexFile, inMemory, spc, committed, adds>>
retryVars == <<rpc, attempt, backoff, opLog, waits, rctxDone, rOut, runs>>
fsVars == <<fsPath, fsLog>>
timeVars == <<expiry>>
sidVars == <<hasStorage, activeID, files, asstSession, lastOp>>
spinVars == <<spinner, closes, callers, goroutines, overlapped>>
auxVars == <<storeVars, retryVars, fsVars, timeVars, sidVars, spinVars>>
exVars == <<exIn, exOut, filterVars, sessionVars, auxVars>>
vars ==
    <<streaming, storageOn, script, extractions, conversation, sessionUsage,
      sessionMessages, pc, i,
      ctxExpired, stream, streamOpen, fullContent, fullResponse, toolCalls, idx,
      allResults, lastErr, turns, requests, convAtCall, started, results, running,
      executed, sent, phase, first, exIn, exOut, filter, pending, fedText, shown, marks,
      leaked, flushes, earlyFlush, otherSessions, sessionOps, sessionFile, indexFile,
      inMemory, spc, committed, adds, rpc, attempt, backoff, opLog, waits, rctxDone, rOut,
      runs, fsPath, fsLog, enableSpinner, spinning, expiry, hasStorage, activeID, files,
      asstSession, lastOp, spinner, closes, callers, goroutines, overlapped>>

SystemPrompt == <<"You are Tara Code">>
UserMessage == <<"Hi">>

Message(role, content) == [Role |-> role, Content |-> content]

\* storage.ConversationMessage; ToolCall is <<>> for nil, <<record>> otherwise
StoredMessage(role, content, toolCall) ==
    [Role |-> role, Content |-> content, ToolCall |-> toolCall]

\* Manager.AddMessage on the session's messages
\* variant: the history is trimmed one message early
AddMessageTrimsEarly(messages, msg) ==
    IF Len(messages) + 1 >= MaxHistoryLength
    THEN SubSeq(Append(messages, msg), Len(messages) + 3 - MaxHistoryLength, Len(messages) + 1)
    ELSE Append(messages, msg)

\* variant: the trim keeps the oldest MaxHistoryLength messages
AddMessageKeepsOldest(messages, msg) ==
    IF MaxHistoryLength > 0 /\ Len(messages) + 1 > MaxHistoryLength
    THEN SubSeq(Append(messages, msg), 1, MaxHistoryLength)
    ELSE Append(messages, msg)

AddMessage(messages, msg) ==
    LET all == Append(messages, msg)
    IN  IF MaxHistoryLength > 0 /\ Len(all) > MaxHistoryLength
        THEN SubSeq(all, Len(all) - MaxHistoryLength + 1, Len(all))
        ELSE all

\* if a.storage != nil && a.session != nil { a.storage.AddMessage(a.session.ID, msg) }
Persist(messages, msg) == IF storageOn THEN AddMessage(messages, msg) ELSE messages

AddUsage(total, u) ==
    [PromptTokens |-> total.PromptTokens + u.PromptTokens,
     CompletionTokens |-> total.CompletionTokens + u.CompletionTokens,
     TotalTokens |-> total.TotalTokens + u.TotalTokens]

NoExtraction == [done |-> FALSE, calls |-> <<>>, text |-> <<>>]
NoOutcome ==
    [conversation |-> <<>>, sessionMessages |-> <<>>, sessionUsage |-> NoUsage,
     executed |-> <<>>, isError |-> FALSE]

\* NewStreamFilter(), about to receive text
InitFilter(text) ==
    /\ filter = NewStreamFilter
    /\ pending = text
    /\ fedText = <<>>
    /\ shown = <<>>
    /\ marks = <<>>
    /\ leaked = FALSE
    /\ flushes = 0
    /\ earlyFlush = FALSE

\* the storage manager holds no session but the active one
\* a session that an earlier run of the program stored
OldSession ==
    <<StoredMessage("user", UserMessage, <<>>), StoredMessage("assistant", <<"Hi">>, <<>>)>>

InitSessions ==
    /\ otherSessions = {OldSession}
    /\ sessionOps = 0

\* The Assistant as New returns it, before any ProcessMessage.
\* a file that holds a JSON document of messages, or holds none that parses
FileOf(messages) == [parses |-> TRUE, messages |-> messages]
TornFile == [parses |-> FALSE, messages |-> <<>>]

\* CreateSession has written the session file (Messages: []) and the index
InitStore ==
    /\ sessionFile = FileOf(<<>>)
    /\ indexFile = [parses |-> TRUE, count |-> 0]
    /\ inMemory = <<>>
    /\ spc = "idle"
    /\ committed = <<>>
    /\ adds = 0

\* what withRetry returns: the kind of its error and the error of fn it carries
Returned(kind, err) == [kind |-> kind, err |-> err]

InitRetry ==
    /\ rpc = "idle"
    /\ attempt = 0
    /\ backoff = 0
    /\ opLog = <<>>
    /\ waits = <<>>
    /\ rctxDone = FALSE
    /\ rOut = Returned("none", "nil")
    /\ runs = 0

\* what a path holds
Absent == [kind |-> "absent", content |-> <<>>]
Directory == [kind |-> "dir", content |-> <<>>]
File(content) == [kind |-> "file", content |-> content]

InitPath ==
    /\ fsPath = Absent
    /\ fsLog = <<>>

\* no deadline has passed
NoExpiry == [turn |-> 0, at |-> "idle"]

\* before New: no Assistant, no storage manager
NoOp == [op |-> "none", err |-> "nil", n |-> 0]

InitIds ==
    /\ hasStorage = FALSE
    /\ activeID = 0
    /\ files = {}
    /\ asstSession = 0
    /\ lastOp = NoOp

\* the goroutines that call the Spinner, the Starts that make channels
Callers == 1..MaxCallers
Starts == 1..MaxStarts
\* the channels: NewSpinner makes 1 and 2, the Start numbered g makes the next pair
StopChan(g) == 2 * g + 1
DoneChan(g) == 2 * g + 2
Chans == 1..DoneChan(MaxStarts)

\* NewSpinner; no call has begun
InitSpinner ==
    /\ spinner = [running |-> FALSE, made |-> 0]
    /\ closes = [ch \in Chans |-> 0]
    /\ callers = [c \in Callers |-> [pc |-> "idle", seen |-> 0, ch |-> 0, left |-> MaxCallsEach]]
    /\ goroutines = [g \in Starts |-> [pc |-> "none", watch |-> 0]]
    /\ overlapped = FALSE

InitAux == InitStore /\ InitRetry /\ InitPath /\ expiry = NoExpiry /\ InitIds /\ InitSpinner

InitAssistant ==
    /\ conversation = <<Message("system", SystemPrompt)>>
    /\ sessionUsage = NoUsage
    /\ sessionMessages = <<>>
    /\ pc = "idle"
    /\ i = 0
    /\ ctxExpired = FALSE
    /\ stream = <<>>
    /\ streamOpen = FALSE
    /\ fullContent = <<>>
    /\ fullResponse = <<>>
    /\ toolCalls = <<>>
    /\ idx = 0
    /\ allResults = <<>>
    /\ lastErr = "none"
    /\ turns = 0
    /\ requests = 0
    /\ convAtCall = <<>>
    /\ started = <<>>
    /\ results = <<>>
    /\ running = {}
    /\ executed = <<>>
    /\ sent = <<>>
    /\ spinning = 0

Init ==
    /\ enableSpinner \in BOOLEAN
    /\ streaming \in BOOLEAN
    /\ storageOn \in BOOLEAN
    /\ script \in Scripts
    /\ extractions = ParsedResponses
    /\ InitAssistant
    /\ phase = 1
    /\ first = NoOutcome
    /\ exIn = <<>>
    /\ exOut = NoExtraction
    /\ InitFilter(<<>>)
    /\ InitSessions
    /\ InitAux

\* if a.enableSpinner { spinner = ui.NewSpinner(); spinner.Start(...) }
SpinnerStarted(n) == IF enableSpinner THEN n + 1 ELSE n

\* if spinner != nil { spinner.Stop() }
SpinnerStopped(n) == IF enableSpinner THEN n - 1 ELSE n

\* variant: an error return that leaves the spinner running
StoppedOnErrorMissing(n) == n

\* the error returns: if thinkingSpinner != nil { thinkingSpinner.Stop() }
StoppedOnError(n) == SpinnerStopped(n)

\* ProcessMessage(userMessage) up to the for statement
StartTurn ==
    /\ pc = "idle"
    /\ turns' = turns + 1
    /\ convAtCall' = conversation
    /\ sessionMessages' = Persist(sessionMessages, StoredMessage("user", UserMessage, <<>>))
    /\ conversation' = Append(conversation, Message("user", UserMessage))
    /\ ctxExpired' = FALSE
    /\ i' = 0
    /\ requests' = 0
    /\ lastErr' = "none"
    /\ pc' = "loop"
    /\ stream' = <<>>
    /\ streamOpen' = FALSE
    /\ fullContent' = <<>>
    /\ fullResponse' = <<>>
    /\ toolCalls' = <<>>
    /\ idx' = 0
    /\ allResults' = <<>>
    /\ started' = <<>>
    /\ results' = <<>>
    /\ running' = {}
    /\ UNCHANGED <<envVars, sessionUsage, replayVars, exVars, logVars, spinning>>

ProcessMessage == turns < MaxTurns /\ StartTurn

\* a for statement that lets the counter reach maxIterations inside the body
LoopGuardInclusive(iter) == iter <= maxIterations

\* a for statement without a condition
LoopGuardAlways(iter) == iter >= 0

\* the for statement's condition
LoopGuard(iter) == iter < maxIterations

\* The loop body up to the request: CreateChatCompletionStream or
\* CreateChatCompletion is called with a.conversation.
IssueRequest ==
    /\ pc = "loop"
    /\ LoopGuard(i)
    /\ requests' = requests + 1
    /\ sent' = conversation
    /\ pc' = IF streaming THEN "create" ELSE "request"
    /\ fullContent' = <<>>
    /\ fullResponse' = <<>>
    /\ toolCalls' = <<>>
    /\ idx' = 0
    /\ allResults' = <<>>
    /\ started' = <<>>
    /\ results' = <<>>
    /\ spinning' = SpinnerStarted(spinning)
    /\ UNCHANGED <<envVars, asstVars, i, ctxExpired, stream, streamOpen, lastErr, turns,
                   convAtCall, running, replayVars, exVars, executed>>

\* The loop ends with the counter at maxIterations: return nil.
LoopExhausted ==
    /\ pc = "loop"
    /\ ~LoopGuard(i)
    /\ pc' = "idle"
    /\ lastErr' = "nil"
    /\ UNCHANGED <<envVars, asstVars, i, ctxExpired, iterVars, turns, requests, convAtCall,
                   toolObs, replayVars, exVars, logVars>>

\* a return that first appends what the stream delivered as an assistant message
ReturnErrorKeepsPartial(err, deadline) ==
    /\ pc' = "idle"
    /\ lastErr' = err
    /\ ctxExpired' = deadline
    /\ stream' = <<>>
    /\ streamOpen' = FALSE
    /\ conversation' = Append(conversation, Message("assistant", fullContent))
    /\ spinning' = StoppedOnError(spinning)
    /\ UNCHANGED <<envVars, sessionUsage, sessionMessages, i, fullContent, fullResponse,
                   toolCalls, idx, allResults, turns, requests, convAtCall, started, results,
                   running, replayVars, exVars, logVars>>

\* return fmt.Errorf(...) from the request: nothing but the return value.  The
\* request's error is the deadline of ctx having passed (deadline), or another.
ReturnError(err, deadline) ==
    /\ pc' = "idle"
    /\ lastErr' = err
    /\ ctxExpired' = deadline
    /\ stream' = <<>>
    /\ streamOpen' = FALSE
    /\ spinning' = StoppedOnError(spinning)
    /\ UNCHANGED <<envVars, asstVars, i, fullContent, fullResponse, toolCalls,
                   idx, allResults, turns, requests, convAtCall, started, results, running,
                   replayVars, exVars, logVars>>

\* CreateChatCompletionStream returns a stream.
StreamCreated ==
    /\ pc = "create"
    /\ stream' = Chunks(ResponseAt(script, i))
    /\ streamOpen' = TRUE
    /\ fullContent' = <<>>
    /\ pc' = "recv"
    /\ UNCHANGED <<envVars, asstVars, i, ctxExpired, fullResponse, toolCalls, idx,
                   allResults, lastErr, turns, requests, convAtCall, toolObs, replayVars,
                   exVars, logVars>>

\* CreateChatCompletionStream returns an error.
StreamCreateFails ==
    /\ pc = "create"
    /\ \E deadline \in BOOLEAN : ReturnError("failed to create stream", deadline)

\* stream.Recv returns a chunk.
StreamRecv ==
    /\ pc = "recv"
    /\ stream # <<>>
    /\ LET chunk == Head(stream)
       IN  /\ fullContent' = IF chunk.hasChoice THEN fullContent \o chunk.delta
                             ELSE fullContent
           /\ sessionUsage' = IF chunk.hasUsage THEN AddUsage(sessionUsage, chunk.usage)
                              ELSE sessionUsage
    /\ stream' = Tail(stream)
    /\ UNCHANGED <<envVars, conversation, sessionMessages, pc, i, ctxExpired, streamOpen,
                   fullResponse, toolCalls, idx, allResults, lastErr, turns, requests,
                   convAtCall, toolObs, replayVars, exVars, logVars>>

\* stream.Recv returns an error other than io.EOF.
StreamRecvFails ==
    /\ pc = "recv"
    /\ \E deadline \in BOOLEAN : ReturnError("stream error", deadline)

\* toolCalls, displayText := parseToolCalls(text).  parseToolCalls is a function
\* of the text alone, so its value is taken from extractions, where the initial
\* state holds it for every text a response can carry.
ParsedResponse(text) == (CHOOSE p \in extractions : p.text = text).parsed

\* What both loops do with the response text: parseToolCalls, then either the
\* assistant message and the end of the turn, or the assistant message and the
\* tool loop.
\* variant: the history keeps the text without its think blocks
AssistantMessageCleaned(fullResponse_) == Message("assistant", cleanResponse(fullResponse_))

\* openai.ChatCompletionMessage{Role: ChatMessageRoleAssistant, Content: fullResponse}
AssistantMessage(fullResponse_) == Message("assistant", fullResponse_)

HandleResponse(text) ==
    LET parsed == ParsedResponse(text)
    IN  /\ fullResponse' = text
        /\ conversation' = Append(conversation, AssistantMessage(text))
        /\ toolCalls' = parsed.calls
        /\ allResults' = <<>>
        /\ IF Len(parsed.calls) = 0
           THEN /\ sessionMessages' =
                       Persist(sessionMessages, StoredMessage("assistant", text, <<>>))
                /\ idx' = 0
                /\ pc' = "idle"
                /\ lastErr' = "nil"
           ELSE /\ sessionMessages' = sessionMessages
                /\ idx' = 1
                /\ pc' = "tool"
                /\ lastErr' = lastErr

\* stream.Recv returns io.EOF: the stream is closed and the response handled.
StreamEOF ==
    /\ pc = "recv"
    /\ stream = <<>>
    /\ streamOpen' = FALSE
    /\ spinning' = SpinnerStopped(spinning)
    /\ HandleResponse(fullContent)
    /\ UNCHANGED <<envVars, sessionUsage, i, ctxExpired, stream, fullContent, turns,
                   requests, convAtCall, started, results, running, replayVars, exVars,
                   logVars>>

\* CreateChatCompletion returns a response.
BufferedResponds ==
    /\ pc = "request"
    /\ LET resp == ResponseAt(script, i)
           usage == IF resp.reported THEN resp.usage ELSE NoUsage
       IN  IF ~resp.choices
           THEN /\ pc' = "idle"
                /\ lastErr' = "no response choices returned"
                /\ UNCHANGED <<asstVars, fullResponse, toolCalls, idx, allResults>>
           ELSE /\ sessionUsage' = IF usage.TotalTokens > 0 THEN AddUsage(sessionUsage, usage)
                                   ELSE sessionUsage
                /\ HandleResponse(resp.content)
    /\ spinning' = SpinnerStopped(spinning)
    /\ UNCHANGED <<envVars, i, ctxExpired, stream, streamOpen, fullContent, turns, requests,
                   convAtCall, started, results, running, replayVars, exVars, logVars>>

\* CreateChatCompletion returns an error.
BufferedFails ==
    /\ pc = "request"
    /\ \E deadline \in BOOLEAN : ReturnError("failed to get response", deadline)

\* fmt.Sprintf("Tool result:\n%s", result)
SingleResult(result) == <<"Tool result:", NL>> \o result

\* the numbered entry with idx in place of idx+1
NumberedResultFromZero(n, tool, result) ==
    <<"[">> \o Itoa(n - 1) \o <<"] ">> \o tool \o <<" result:", NL>> \o result \o <<NL, NL>>

\* fmt.Sprintf("[%d] %s result:\n%s\n\n", idx+1, toolCall.Tool, result)
NumberedResult(n, tool, result) ==
    <<"[">> \o Itoa(n) \o <<"] ">> \o tool \o <<" result:", NL>> \o result \o <<NL, NL>>

\* What the tool loop writes to allResults for the call at position n (from 1).
ResultEntry(totalTools, n, tool, result) ==
    IF totalTools > 1 THEN NumberedResult(n, tool, result) ELSE SingleResult(result)

\* a tool loop that forgets the error and keeps the (empty) result
ResultTextDropsError(out) == out.result

\* result = fmt.Sprintf("Error: %v", err) when ExecuteTool returned an error
ResultText(out) == IF out.err # <<>> THEN <<"Error: ">> \o out.err ELSE out.result

\* storage.ToolCallRecord (the duration aside)
ToolCallRecord(call, result, success) ==
    [Tool |-> call.Tool, Params |-> call.Params, Result |-> result, Success |-> success]

\* a tool loop that hands the next call to ExecuteTool without waiting for the
\* one that is running
ToolStartOverlapping ==
    /\ pc \in {"tool", "exec"}
    /\ Len(started) < Len(toolCalls)
    /\ started' = Append(started, toolCalls[Len(started) + 1])
    /\ executed' = Append(executed, toolCalls[Len(started) + 1])
    /\ running' = running \cup {Len(started) + 1}
    /\ pc' = "exec"
    /\ spinning' = SpinnerStarted(spinning)
    /\ UNCHANGED <<envVars, asstVars, i, ctxExpired, iterVars, lastErr, turns, requests,
                   convAtCall, results, replayVars, exVars, sent>>

\* The tool loop's body up to the call of a.toolRegistry.ExecuteTool.
ToolStart ==
    /\ pc = "tool"
    /\ started' = Append(started, toolCalls[idx])
    /\ executed' = Append(executed, toolCalls[idx])
    /\ running' = running \cup {idx}
    /\ pc' = "exec"
    /\ spinning' = SpinnerStarted(spinning)
    /\ UNCHANGED <<envVars, asstVars, i, ctxExpired, iterVars, lastErr, turns, requests,
                   convAtCall, results, replayVars, exVars, sent>>

\* ExecuteTool returns: the rest of the tool loop's body, and after the last call
\* the aggregated message and the loop counter's step.
ToolReturn ==
    /\ pc = "exec"
    /\ LET call == toolCalls[idx]
           out == ExecuteTool(call.Tool, call.Fields)
           isError == out.err # <<>>
           result == ResultText(out)
           all == allResults \o ResultEntry(Len(toolCalls), idx, call.Tool, result)
       IN  /\ allResults' = all
           /\ results' = Append(results, result)
           /\ sessionMessages' =
                  Persist(sessionMessages,
                          StoredMessage("assistant", fullResponse,
                                        <<ToolCallRecord(call, result, ~isError)>>))
           /\ IF idx < Len(toolCalls)
              THEN /\ idx' = idx + 1
                   /\ pc' = "tool"
                   /\ UNCHANGED <<conversation, i>>
              ELSE /\ idx' = idx
                   /\ conversation' = Append(conversation, Message("user", all))
                   /\ i' = i + 1
                   /\ pc' = "loop"
    /\ running' = running \ {idx}
    /\ spinning' = SpinnerStopped(spinning)
    /\ UNCHANGED <<envVars, sessionUsage, ctxExpired, stream, streamOpen, fullContent,
                   fullResponse, toolCalls, lastErr, turns, requests, convAtCall, started,
                   replayVars, exVars, logVars>>

Next ==
    \/ ProcessMessage
    \/ IssueRequest
    \/ LoopExhausted
    \/ StreamCreated
    \/ StreamCreateFails
    \/ StreamRecv
    \/ StreamRecvFails
    \/ StreamEOF
    \/ BufferedResponds
    \/ BufferedFails
    \/ ToolStart
    \/ ToolReturn

Spec == Init /\ [][Next]_vars

(***************************************************************************)
(* The turn under the assumption that every request and every tool         *)
(* execution returns: the steps of ProcessMessage are taken when they can  *)
(* be.                                                                     *)
(***************************************************************************)
Progress ==
    \/ IssueRequest
    \/ LoopExhausted
    \/ StreamCreated
    \/ StreamCreateFails
    \/ StreamRecv
    \/ StreamRecvFails
    \/ StreamEOF
    \/ BufferedResponds
    \/ BufferedFails
    \/ ToolStart
    \/ ToolReturn

LiveSpec == Init /\ [][Next]_vars /\ WF_vars(Progress)

(***************************************************************************)
(* The same turns in the other transport mode: once the turns of the first *)
(* Assistant are over, a second Assistant is made by New with the other    *)
(* value of streaming, the same storage setting and the same model         *)
(* responses, and the first one's outcome is kept for comparison.  No      *)
(* request fails and the deadline does not pass.                           *)
(***************************************************************************)
Outcome ==
    [conversation |-> conversation, sessionMessages |-> sessionMessages,
     sessionUsage |-> sessionUsage, executed |-> executed,
     isError |-> lastErr \notin {"none", "nil"}]

TurnsOver == pc = "idle" /\ turns = MaxTurns

Rerun ==
    /\ phase = 1
    /\ TurnsOver
    /\ phase' = 2
    /\ first' = Outcome
    /\ streaming' = ~streaming
    /\ conversation' = <<Message("system", SystemPrompt)>>
    /\ sessionUsage' = NoUsage
    /\ sessionMessages' = <<>>
    /\ pc' = "idle"
    /\ i' = 0
    /\ ctxExpired' = FALSE
    /\ stream' = <<>>
    /\ streamOpen' = FALSE
    /\ fullContent' = <<>>
    /\ fullResponse' = <<>>
    /\ toolCalls' = <<>>
    /\ idx' = 0
    /\ allResults' = <<>>
    /\ lastErr' = "none"
    /\ turns' = 0
    /\ requests' = 0
    /\ convAtCall' = <<>>
    /\ started' = <<>>
    /\ results' = <<>>
    /\ running' = {}
    /\ executed' = <<>>
    /\ sent' = <<>>
    /\ spinning' = 0
    /\ UNCHANGED <<storageOn, script, extractions, enableSpinner, exVars>>

NextEquiv ==
    \/ ProcessMessage
    \/ IssueRequest
    \/ LoopExhausted
    \/ StreamCreated
    \/ StreamRecv
    \/ StreamEOF
    \/ BufferedResponds
    \/ ToolStart
    \/ ToolReturn
    \/ Rerun

SpecEquiv == Init /\ [][NextEquiv]_vars

(***************************************************************************)
(* The extractor alone, on responses put together from fragments.          *)
(***************************************************************************)
Fragments ==
    { ReadA(<<" ">>), ReadA(<<>>), ReadB(<<" ">>), ReadB(<<>>), Frobnicate,
      ArrayAB(<<" ">>), ArrayAB(<<>>),
      CallText("", "file_path", "a.go", <<>>),
      WriteNested, WriteBraces, ReadWrapped, ArrayParamsFirst, WriteNewlineBrace,
      WriteNewline,
      <<"Hi">>, <<" ">>, <<NL>>, <<",">>, ThinkOpen, ThinkClose }

RECURSIVE Inputs(_)
Inputs(n) ==
    IF n = 0 THEN {<<>>}
    ELSE Inputs(n - 1) \cup {x[1] \o x[2] : x \in Inputs(n - 1) \X Fragments}

InitExtract ==
    /\ enableSpinner = TRUE
    /\ streaming = FALSE
    /\ storageOn = FALSE
    /\ script \in {sc \in Scripts : sc.n = 0 /\ sc.rest.content = <<"Hi">>}
    /\ extractions = ParsedResponses
    /\ InitAssistant
    /\ phase = 1
    /\ first = NoOutcome
    /\ exIn \in Inputs(MaxFragments)
    /\ exOut = NoExtraction
    /\ InitFilter(<<>>)
    /\ InitSessions
    /\ InitAux

Extraction(parsed) == [done |-> TRUE, calls |-> parsed.calls, text |-> parsed.text]

\* toolCalls, displayText := parseToolCalls(exIn)
Extract ==
    /\ ~exOut.done
    /\ exOut' = Extraction(parseToolCalls(exIn))
    /\ UNCHANGED <<envVars, asstVars, pc, i, ctxExpired, iterVars, lastErr, turns, requests,
                   convAtCall, toolObs, replayVars, exIn, logVars, filterVars,
                   sessionVars, auxVars>>

NextExtract == Extract

SpecExtract == InitExtract /\ [][NextExtract]_vars

(***************************************************************************)
(* The stream filter alone, on streams cut into chunks in every way.       *)
(***************************************************************************)
FilterPieces == {ThinkOpen, ThinkClose, <<"H", "i">>, <<"<">>, <<" ">>, <<"<", "t", "h">>}

RECURSIVE Pieces(_)
Pieces(n) ==
    IF n = 0 THEN {<<>>}
    ELSE Pieces(n - 1) \cup {x[1] \o x[2] : x \in Pieces(n - 1) \X FilterPieces}

\* texts without "<"
Plain == {<<>>, <<"H", "e", "l", "l", "o">>, <<" ", "H", "i", NL>>}

\* texts without "</think>"
Inner ==
    {<<>>, <<"s", "e", "c", "r", "e", "t", " ", "r", "e", "a", "s", "o", "n", "i", "n", "g">>,
     <<"<">>, ThinkOpen, <<"<", "/", "t", "h", "i", "n", "k">>}

\* P + "<think>" + R + "</think>" + S
Enclosed(P, R, S) == P \o ThinkOpen \o R \o ThinkClose \o S

FilterTexts ==
    Pieces(MaxPieces) \cup {Enclosed(x[1], x[2], x[3]) : x \in Plain \X Inner \X Plain}

InitStream ==
    /\ enableSpinner = TRUE
    /\ streaming = TRUE
    /\ storageOn = FALSE
    /\ script \in {sc \in Scripts : sc.n = 0 /\ sc.rest.content = <<"Hi">>}
    /\ extractions = ParsedResponses
    /\ InitAssistant
    /\ phase = 1
    /\ first = NoOutcome
    /\ exIn = <<>>
    /\ exOut = NoExtraction
    /\ \E text \in FilterTexts : InitFilter(text)
    /\ InitSessions
    /\ InitAux

\* variant: the transcript receives only what arrives outside a think block
WriteFullContentOutsideThink(f, chunk) ==
    IF f.inThinkTag THEN f.fullContent ELSE f.fullContent \o chunk

\* f.fullContent.WriteString(chunk)
WriteFullContent(f, chunk) == f.fullContent \o chunk

\* the filter after Process(chunk), r being the run at the end of the loop
Processed(f, chunk, r) ==
    [buffer |-> r.buffer, inThinkTag |-> r.inThinkTag,
     fullContent |-> WriteFullContent(f, chunk)]

ProcessReturns(chunk, r) ==
    /\ filter' = Processed(filter, chunk, r)
    /\ shown' = shown \o r.display
    /\ marks' = r.marks
    /\ leaked' = (leaked \/ r.leak)
    /\ fedText' = fedText \o chunk

\* StreamFilter.Process(chunk), chunk being the next n units of the stream
Process ==
    /\ \E n \in 1..Len(pending) :
          /\ ProcessReturns(SubSeq(pending, 1, n),
                            ProcessChars(Run(filter, marks), SubSeq(pending, 1, n)))
          /\ pending' = Drop(pending, n + 1)
    /\ UNCHANGED <<envVars, asstVars, pc, i, ctxExpired, iterVars, lastErr, turns, requests,
                   convAtCall, toolObs, replayVars, exIn, exOut, logVars, flushes,
                   earlyFlush, sessionVars, auxVars>>

\* variant: Flush empties the buffer and returns nothing
FlushResultEmpty(f) == <<>>

\* result := f.buffer.String()
FlushResult(f) == f.buffer

\* StreamFilter.Flush()
Flush ==
    /\ flushes < MaxFlushes
    /\ flushes' = flushes + 1
    /\ earlyFlush' = (earlyFlush \/ pending # <<>>)
    /\ shown' = shown \o FlushResult(filter)
    /\ leaked' = (leaked \/ \E n \in 1..Len(marks) : marks[n])
    /\ filter' = [filter EXCEPT !.buffer = <<>>]
    /\ marks' = <<>>
    /\ UNCHANGED <<envVars, asstVars, pc, i, ctxExpired, iterVars, lastErr, turns, requests,
                   convAtCall, toolObs, replayVars, exIn, exOut, logVars, pending, fedText,
                   sessionVars, auxVars>>

NextFilter == Process \/ Flush

SpecFilter == InitStream /\ [][NextFilter]_vars

(***************************************************************************)
(* NewSession and LoadSession, called between the turns.                   *)
(***************************************************************************)
\* []openai.ChatCompletionMessage{{Role: ChatMessageRoleSystem, Content: systemPrompt}}
SystemOnly == <<Message("system", SystemPrompt)>>

\* role := ChatMessageRoleUser; if msg.Role == "assistant" { role = ChatMessageRoleAssistant }
LoadedRole(msg) == IF msg.Role = "assistant" THEN "assistant" ELSE "user"

\* variant: the history is rebuilt from the stored messages alone
RebuiltConversationBare(messages) ==
    [n \in 1..Len(messages) |-> Message(LoadedRole(messages[n]), messages[n].Content)]

\* the system message, then every message of the session
RebuiltConversation(messages) ==
    SystemOnly
        \o [n \in 1..Len(messages) |-> Message(LoadedRole(messages[n]), messages[n].Content)]

\* an error return of NewSession or LoadSession: nothing but the call is seen
SessionError ==
    /\ sessionOps' = sessionOps + 1
    /\ UNCHANGED <<asstVars, otherSessions>>

\* Assistant.NewSession(name); created: storage.CreateSession returned no error
NewSession ==
    /\ pc = "idle"
    /\ sessionOps < MaxSessionOps
    /\ \E created \in BOOLEAN :
          IF storageOn /\ created
          THEN /\ sessionOps' = sessionOps + 1
               /\ otherSessions' = otherSessions \cup {sessionMessages}
               /\ sessionMessages' = <<>>
               /\ conversation' = SystemOnly
               /\ UNCHANGED sessionUsage
          ELSE SessionError
    /\ UNCHANGED <<envVars, pc, i, ctxExpired, iterVars, lastErr, turns, requests, convAtCall,
                   toolObs, replayVars, exIn, exOut, filterVars, logVars, auxVars>>

\* Assistant.LoadSession(id); found: storage.GetSession returned the session
LoadSession ==
    /\ pc = "idle"
    /\ sessionOps < MaxSessionOps
    /\ \E found \in BOOLEAN, session \in otherSessions \cup {sessionMessages} :
          IF storageOn /\ found
          THEN /\ sessionOps' = sessionOps + 1
               /\ otherSessions' = (otherSessions \cup {sessionMessages}) \ {session}
               /\ sessionMessages' = session
               /\ conversation' = RebuiltConversation(session)
               /\ UNCHANGED sessionUsage
          ELSE SessionError
    /\ UNCHANGED <<envVars, pc, i, ctxExpired, iterVars, lastErr, turns, requests, convAtCall,
                   toolObs, replayVars, exIn, exOut, filterVars, logVars, auxVars>>

NextSessions == Next \/ NewSession \/ LoadSession

SpecSessions == Init /\ [][NextSessions]_vars

(***************************************************************************)
(* Manager.AddMessage on the files of a session, and the process stopping. *)
(***************************************************************************)
\* the message of a user turn and the message that carries a ToolCallRecord
PlainMessage == StoredMessage("user", UserMessage, <<>>)
RecordMessage ==
    StoredMessage("assistant", <<"Hi">>,
                  ToolCallRecord([Tool |-> <<"read_file">>, Params |-> <<"{", "}">>],
                                 <<"ok">>, TRUE))

HoldsRecord(messages) == \E n \in 1..Len(messages) : messages[n] = RecordMessage

InitStorage ==
    /\ enableSpinner = TRUE
    /\ streaming = FALSE
    /\ storageOn = TRUE
    /\ script \in {sc \in Scripts : sc.n = 0 /\ sc.rest.content = <<"Hi">>}
    /\ extractions = ParsedResponses
    /\ InitAssistant
    /\ phase = 1
    /\ first = NoOutcome
    /\ exIn = <<>>
    /\ exOut = NoExtraction
    /\ InitFilter(<<>>)
    /\ InitSessions
    /\ InitAux

StorageFrame ==
    UNCHANGED <<envVars, asstVars, pc, i, ctxExpired, iterVars, lastErr, turns, requests,
                convAtCall, toolObs, replayVars, exIn, exOut, filterVars, sessionVars,
                logVars, retryVars, fsVars, timeVars, sidVars, spinVars>>

\* AddMessage: getSessionUnsafe reads and decodes the session file, the message
\* is appended and the history trimmed
AddMessageRead ==
    /\ spc = "idle"
    /\ adds < MaxAdds
    /\ adds' = adds + 1
    /\ \E msg \in {PlainMessage} \cup (IF HoldsRecord(committed) THEN {} ELSE {RecordMessage}) :
          IF sessionFile.parses
          THEN /\ inMemory' = AddMessage(sessionFile.messages, msg)
               /\ spc' = "loaded"
          ELSE /\ inMemory' = <<>>
               /\ spc' = "idle"
    /\ UNCHANGED <<sessionFile, indexFile, committed>>
    /\ StorageFrame

\* saveSession: os.WriteFile opens the session file, which truncates it
SessionTruncated ==
    /\ spc = "loaded"
    /\ sessionFile' = TornFile
    /\ spc' = "writing"
    /\ UNCHANGED <<indexFile, inMemory, committed, adds>>
    /\ StorageFrame

\* saveSession: the data is written and the file closed
SessionWritten ==
    /\ spc = "writing"
    /\ sessionFile' = FileOf(inMemory)
    /\ spc' = "saved"
    /\ UNCHANGED <<indexFile, inMemory, committed, adds>>
    /\ StorageFrame

\* saveSessionIndex: os.WriteFile opens the index file, which truncates it
IndexTruncated ==
    /\ spc = "saved"
    /\ indexFile' = [parses |-> FALSE, count |-> 0]
    /\ spc' = "indexing"
    /\ UNCHANGED <<sessionFile, inMemory, committed, adds>>
    /\ StorageFrame

\* saveSessionIndex: the index is written; AddMessage returns nil
IndexWritten ==
    /\ spc = "indexing"
    /\ indexFile' = [parses |-> TRUE, count |-> Len(inMemory)]
    /\ committed' = sessionFile.messages
    /\ spc' = "idle"
    /\ UNCHANGED <<sessionFile, inMemory, adds>>
    /\ StorageFrame

\* the process stops, between or inside the steps of AddMessage
Crash ==
    /\ spc # "crashed"
    /\ adds > 0
    /\ spc' = "crashed"
    /\ UNCHANGED <<sessionFile, indexFile, inMemory, committed, adds>>
    /\ StorageFrame

NextStorage ==
    \/ AddMessageRead
    \/ SessionTruncated
    \/ SessionWritten
    \/ IndexTruncated
    \/ IndexWritten
    \/ Crash

SpecStorage == InitStorage /\ [][NextStorage]_vars

(***************************************************************************)
(* The turn with the deadline of its context: ctx is made by               *)
(* WithTimeout(Background(), apiResponseTimeout) at the start of the turn  *)
(* and handed to every request; ExecuteTool is not given it.               *)
(***************************************************************************)
\* the deadline of this turn's ctx has passed
DeadlinePassed == expiry.turn = turns /\ turns > 0

LoopFrame ==
    UNCHANGED <<envVars, asstVars, pc, i, ctxExpired, iterVars, lastErr, turns, requests,
                convAtCall, toolObs, replayVars, exIn, exOut, filterVars, sessionVars,
                logVars, storeVars, retryVars, fsVars, sidVars, spinVars>>

\* apiResponseTimeout after the start of the turn, wherever the turn stands
DeadlinePasses ==
    /\ pc # "idle"
    /\ ~DeadlinePassed
    /\ expiry' = [turn |-> turns, at |-> pc]
    /\ LoopFrame

\* a request returns an error: the deadline's when it has passed, another otherwise
FailsAsDeadline == ctxExpired' = DeadlinePassed

\* variant: ExecuteTool is handed ctx and gives up when its deadline has passed
ToolInterruptedWithCtx(expired) == expired

\* a.toolRegistry.ExecuteTool(toolCall.Tool, toolCall.Params, a.workingDir): no ctx
ToolInterrupted(expired) == FALSE

\* ExecuteTool returns, whatever the deadline
ToolReturnAnyTime ==
    IF ToolInterrupted(DeadlinePassed)
    THEN pc = "exec" /\ ReturnError("tool cancelled", TRUE)
    ELSE ToolReturn

\* the requests under the deadline: one that is made or still runs when the
\* deadline has passed returns the deadline's error; chunks that have arrived
\* can still be received
StreamCreatedInTime == ~DeadlinePassed /\ StreamCreated
StreamCreateFailsTimed == StreamCreateFails /\ FailsAsDeadline
StreamRecvFailsTimed == StreamRecvFails /\ FailsAsDeadline
BufferedRespondsInTime == ~DeadlinePassed /\ BufferedResponds
BufferedFailsTimed == BufferedFails /\ FailsAsDeadline

NextTimeout ==
    \/ DeadlinePasses
    \/ ProcessMessage
    \/ IssueRequest
    \/ LoopExhausted
    \/ StreamCreatedInTime
    \/ StreamCreateFailsTimed
    \/ StreamRecv
    \/ StreamRecvFailsTimed
    \/ StreamEOF
    \/ BufferedRespondsInTime
    \/ BufferedFailsTimed
    \/ ToolStart
    \/ ToolReturnAnyTime

InitTimeout == Init /\ enableSpinner = TRUE /\ storageOn = FALSE

SpecTimeout == InitTimeout /\ [][NextTimeout]_vars

(***************************************************************************)
(* Turns that follow each other on one Assistant.                          *)
(***************************************************************************)
\* ProcessMessage is called again after it returned
ProcessMessageAgain == turns < MaxFollowing /\ StartTurn

NextTurns ==
    \/ ProcessMessageAgain
    \/ IssueRequest
    \/ LoopExhausted
    \/ StreamCreated
    \/ StreamCreateFails
    \/ StreamRecv
    \/ StreamRecvFails
    \/ StreamEOF
    \/ BufferedResponds
    \/ BufferedFails
    \/ ToolStart
    \/ ToolReturn

InitTurns == Init /\ enableSpinner = TRUE /\ storageOn = FALSE

SpecTurns == InitTurns /\ [][NextTurns]_vars

(***************************************************************************)
(* The session ids: New, NewSession and LoadSession with the storage       *)
(* manager's CreateSession, GetSession and SetActiveSession.               *)
(***************************************************************************)
\* the session ids: 1 is stored by an earlier run, the others are made here
SessionIds == 1..(2 + MaxIdOps)

\* uuid.New(): an id no session has
FreshId == 2 + lastOp.n

\* how CreateSession ends: both files written, saveSession fails, or
\* saveSessionIndex fails
CreateOutcomes == {"created", "session not saved", "index not saved"}

Done(op, err) == [op |-> op, err |-> err, n |-> lastOp.n + 1]

\* the messages of a stored session: session 1 holds a conversation
MessagesOf(id) == IF id = 1 THEN OldSession ELSE <<>>

IdsFrame ==
    UNCHANGED <<envVars, sessionUsage, sessionMessages, pc, i, ctxExpired, iterVars, lastErr,
                turns, requests, convAtCall, toolObs, replayVars, exIn, exOut, filterVars,
                sessionVars, logVars, storeVars, retryVars, fsVars, timeVars, spinVars>>

\* CreateSession: m.sessionIndex.ActiveSessionID = session.ID comes after
\* saveSession and before saveSessionIndex
ActiveAfterCreate(outcome, id) == IF outcome = "session not saved" THEN activeID ELSE id

\* CreateSession: the session file is there once saveSession has returned nil
FilesAfterCreate(outcome, id) ==
    IF outcome = "session not saved" THEN files ELSE files \union {id}

\* what was stored before the program started: nothing, session 1 as the active
\* one, or an index that names session 1 while its file is missing or torn
StoredBefore == {[active |-> 0, files |-> {}], [active |-> 1, files |-> {1}],
                 [active |-> 1, files |-> {}]}

\* New: NewManager, GetActiveSession, CreateSession("") when there is none
NewAssistant ==
    /\ lastOp = NoOp
    /\ \E managed \in BOOLEAN, disk \in StoredBefore, outcome \in CreateOutcomes :
          /\ hasStorage' = managed
          /\ IF ~managed
             THEN /\ activeID' = 0 /\ files' = disk.files /\ asstSession' = 0
             ELSE IF disk.active # 0 /\ disk.active \in disk.files
             THEN /\ activeID' = disk.active /\ files' = disk.files
                  /\ asstSession' = disk.active
             ELSE /\ activeID' = IF outcome = "session not saved" THEN disk.active
                                 ELSE disk.active + 1
                  /\ files' = IF outcome = "session not saved" THEN disk.files
                              ELSE disk.files \union {disk.active + 1}
                  /\ asstSession' = IF outcome = "created" THEN disk.active + 1 ELSE 0
    /\ conversation' = SystemOnly
    /\ lastOp' = Done("New", "nil")
    /\ IdsFrame

\* Assistant.NewSession(name)
NewSessionId ==
    /\ lastOp # NoOp
    /\ lastOp.n <= MaxIdOps
    /\ IF ~hasStorage
       THEN /\ lastOp' = Done("NewSession", "storage not initialized")
            /\ UNCHANGED <<activeID, files, asstSession, conversation>>
       ELSE \E outcome \in CreateOutcomes :
               /\ activeID' = ActiveAfterCreate(outcome, FreshId)
               /\ files' = FilesAfterCreate(outcome, FreshId)
               /\ IF outcome = "created"
                  THEN /\ asstSession' = FreshId
                       /\ conversation' = SystemOnly
                       /\ lastOp' = Done("NewSession", "nil")
                  ELSE /\ UNCHANGED <<asstSession, conversation>>
                       /\ lastOp' = Done("NewSession", outcome)
    /\ UNCHANGED hasStorage
    /\ IdsFrame

\* Assistant.LoadSession(id)
LoadSessionId ==
    /\ lastOp # NoOp
    /\ lastOp.n <= MaxIdOps
    /\ \E id \in SessionIds :
          IF ~hasStorage
          THEN /\ lastOp' = Done("LoadSession", "storage not initialized")
               /\ UNCHANGED <<activeID, files, asstSession, conversation>>
          ELSE IF id \notin files
          THEN /\ lastOp' = Done("LoadSession", "session not found")
               /\ UNCHANGED <<activeID, files, asstSession, conversation>>
          ELSE /\ asstSession' = id
               /\ activeID' = id
               /\ conversation' = RebuiltConversation(MessagesOf(id))
               /\ lastOp' = Done("LoadSession", "nil")
               /\ UNCHANGED files
    /\ UNCHANGED hasStorage
    /\ IdsFrame

NextIds == NewAssistant \/ NewSessionId \/ LoadSessionId

SpecIds == InitStorage /\ [][NextIds]_vars

(***************************************************************************)
(* The Spinner under concurrent Start and Stop calls.  A step is what one  *)
(* goroutine does between two points where another can run: the part under *)
(* s.mu, a close, the evaluation of a channel field, a receive.            *)
(***************************************************************************)
SpinFrame ==
    UNCHANGED <<envVars, asstVars, pc, i, ctxExpired, iterVars, lastErr, turns, requests,
                convAtCall, toolObs, replayVars, exIn, exOut, filterVars, sessionVars, logVars,
                storeVars, retryVars, fsVars, timeVars, sidVars>>

\* closing a closed channel panics, and the panic ends the program
Panicked == \E ch \in Chans : closes[ch] > 1

\* s.stop and s.done are read outside s.mu while Start assigns them under it:
\* such a read gives the pair of any Start from the last one the reader is
\* ordered after up to the latest
MayRead(seen) == seen..spinner.made

Close(ch) == closes' = [closes EXCEPT ![ch] = @ + 1]

Began(c) == overlapped' = (overlapped \/ \E d \in Callers \ {c} : callers[d].pc # "idle")

Return(c) == callers' = [callers EXCEPT ![c].pc = "idle", ![c].left = @ - 1]

\* Start, the part under s.mu
StartLocked(c) ==
    /\ ~Panicked
    /\ callers[c].pc = "idle" /\ callers[c].left > 0
    /\ Began(c)
    /\ IF spinner.running
       THEN Return(c) /\ UNCHANGED spinner
       ELSE /\ spinner.made < MaxStarts
            /\ spinner' = [running |-> TRUE, made |-> spinner.made + 1]
            /\ callers' = [callers EXCEPT ![c].pc = "go", ![c].seen = spinner.made + 1]
    /\ UNCHANGED <<closes, goroutines>>
    /\ SpinFrame

\* Start: go func() { ... }()
StartGo(c) ==
    /\ ~Panicked
    /\ callers[c].pc = "go"
    /\ goroutines' = [goroutines EXCEPT ![callers[c].seen] = [pc |-> "loop", watch |-> 0]]
    /\ Return(c)
    /\ UNCHANGED <<spinner, closes, overlapped>>
    /\ SpinFrame

\* Stop, the part under s.mu
StopLocked(c) ==
    /\ ~Panicked
    /\ callers[c].pc = "idle" /\ callers[c].left > 0
    /\ Began(c)
    /\ IF ~spinner.running
       THEN Return(c) /\ UNCHANGED spinner
       ELSE /\ spinner' = [spinner EXCEPT !.running = FALSE]
            /\ callers' = [callers EXCEPT ![c].pc = "close", ![c].seen = spinner.made]
    /\ UNCHANGED <<closes, goroutines>>
    /\ SpinFrame

\* Stop: close(s.stop)
StopCloses(c) ==
    /\ ~Panicked
    /\ callers[c].pc = "close"
    /\ \E g \in MayRead(callers[c].seen) : Close(StopChan(g))
    /\ callers' = [callers EXCEPT ![c].pc = "recv"]
    /\ UNCHANGED <<spinner, goroutines, overlapped>>
    /\ SpinFrame

\* Stop: <-s.done, the evaluation of s.done
StopEvaluates(c) ==
    /\ ~Panicked
    /\ callers[c].pc = "recv"
    /\ \E g \in MayRead(callers[c].seen) :
          callers' = [callers EXCEPT ![c].pc = "wait", ![c].ch = DoneChan(g)]
    /\ UNCHANGED <<spinner, closes, goroutines, overlapped>>
    /\ SpinFrame

\* Stop: <-s.done, the receive from the closed channel
StopReceives(c) ==
    /\ ~Panicked
    /\ callers[c].pc = "wait"
    /\ closes[callers[c].ch] > 0
    /\ Return(c)
    /\ UNCHANGED <<spinner, closes, goroutines, overlapped>>
    /\ SpinFrame

\* the goroutine: select evaluates s.stop and blocks on it and on the ticker
Select(g) ==
    /\ ~Panicked
    /\ goroutines[g].pc = "loop"
    /\ \E from \in MayRead(g) :
          goroutines' = [goroutines EXCEPT ![g] = [pc |-> "select", watch |-> StopChan(from)]]
    /\ UNCHANGED <<spinner, closes, callers, overlapped>>
    /\ SpinFrame

\* the goroutine: case <-ticker.C
Tick(g) ==
    /\ ~Panicked
    /\ goroutines[g].pc = "select"
    /\ goroutines' = [goroutines EXCEPT ![g].pc = "loop"]
    /\ UNCHANGED <<spinner, closes, callers, overlapped>>
    /\ SpinFrame

\* the goroutine: case <-s.stop
StopSeen(g) ==
    /\ ~Panicked
    /\ goroutines[g].pc = "select"
    /\ closes[goroutines[g].watch] > 0
    /\ goroutines' = [goroutines EXCEPT ![g].pc = "clear"]
    /\ UNCHANGED <<spinner, closes, callers, overlapped>>
    /\ SpinFrame

\* the goroutine: close(s.done); return
CloseDone(g) ==
    /\ ~Panicked
    /\ goroutines[g].pc = "clear"
    /\ \E from \in MayRead(g) : Close(DoneChan(from))
    /\ goroutines' = [goroutines EXCEPT ![g].pc = "dead"]
    /\ UNCHANGED <<spinner, callers, overlapped>>
    /\ SpinFrame

SpinnerStart == \E c \in Callers : StartLocked(c) \/ StartGo(c)
SpinnerStop == \E c \in Callers : StopLocked(c) \/ StopCloses(c) \/ StopEvaluates(c) \/ StopReceives(c)
Animation == \E g \in Starts : Select(g) \/ Tick(g) \/ StopSeen(g) \/ CloseDone(g)

NextSpinner == SpinnerStart \/ SpinnerStop \/ Animation

SpecSpinner == InitStorage /\ [][NextSpinner]_vars

(***************************************************************************)
(* withRetry.                                                              *)
(***************************************************************************)
\* what fn returns: nil, an error isRetryable accepts, an error it does not
OpErrors == {"nil", "transient", "other"}

isRetryable(err) == err = "transient"

\* variant: one more round of the loop
AttemptsLeftInclusive(n) == n <= maxRetries

\* if attempt < maxRetries { ... wait ... }
AttemptsLeft(n) == n < maxRetries

\* backoff = backoff * 2; if backoff > maxBackoff { backoff = maxBackoff }
NextBackoff(b) == IF b * 2 > maxBackoff THEN maxBackoff ELSE b * 2

RetryFrame ==
    UNCHANGED <<envVars, asstVars, pc, i, ctxExpired, iterVars, lastErr, turns, requests,
                convAtCall, toolObs, replayVars, exIn, exOut, filterVars, sessionVars,
                logVars, storeVars, fsVars, timeVars, sidVars, spinVars>>

\* withRetry(ctx, operation, fn) is called; the context may be over already
RetryCalled ==
    /\ rpc \in {"idle", "returned"}
    /\ runs < MaxRuns
    /\ runs' = runs + 1
    /\ rpc' = "call"
    /\ attempt' = 1
    /\ backoff' = initialBackoff
    /\ opLog' = <<>>
    /\ waits' = <<>>
    /\ rctxDone' \in BOOLEAN
    /\ UNCHANGED rOut
    /\ RetryFrame

\* result, lastErr = fn() and the rest of the round up to the select
OpReturns ==
    /\ rpc = "call"
    /\ \E err \in OpErrors :
          /\ opLog' = Append(opLog, err)
          /\ IF err = "nil"
             THEN rpc' = "returned" /\ rOut' = Returned("ok", err) /\ attempt' = attempt
             ELSE IF ~isRetryable(err)
             THEN rpc' = "returned" /\ rOut' = Returned("fn", err) /\ attempt' = attempt
             ELSE IF AttemptsLeft(attempt)
             THEN rpc' = "wait" /\ rOut' = rOut /\ attempt' = attempt
             ELSE /\ rpc' = "returned"
                  /\ rOut' = Returned("after attempts", err)
                  /\ attempt' = attempt + 1
    /\ UNCHANGED <<backoff, waits, rctxDone, runs>>
    /\ RetryFrame

\* case <-time.After(backoff): the wait ends, the backoff doubles, next round
BackoffElapsed ==
    /\ rpc = "wait"
    /\ ~rctxDone
    /\ waits' = Append(waits, backoff)
    /\ backoff' = NextBackoff(backoff)
    /\ attempt' = attempt + 1
    /\ rpc' = "call"
    /\ UNCHANGED <<opLog, rctxDone, rOut, runs>>
    /\ RetryFrame

\* case <-ctx.Done(): return result, ctx.Err()
WaitCancelled ==
    /\ rpc = "wait"
    /\ rctxDone
    /\ rpc' = "returned"
    /\ rOut' = Returned("ctx", "nil")
    /\ UNCHANGED <<attempt, backoff, opLog, waits, rctxDone, runs>>
    /\ RetryFrame

\* the context is cancelled or its deadline passes, while fn runs or during a wait
ContextDone ==
    /\ rpc \in {"call", "wait"}
    /\ ~rctxDone
    /\ rctxDone' = TRUE
    /\ UNCHANGED <<rpc, attempt, backoff, opLog, waits, rOut, runs>>
    /\ RetryFrame

NextRetry == RetryCalled \/ OpReturns \/ BackoffElapsed \/ WaitCancelled \/ ContextDone

SpecRetry == InitStorage /\ [][NextRetry]_vars

(***************************************************************************)
(* The file tools: delete_file, edit_file, replace_lines, delete_lines.    *)
(***************************************************************************)
\* strings.Index(s, sub) from position from on; 0 when there is none
IndexOf(s, sub, from) ==
    LET hits == {p \in from..(Len(s) - Len(sub) + 1) : HasPrefixAt(s, p, sub)}
    IN IF hits = {} THEN 0 ELSE CHOOSE p \in hits : \A q \in hits : p <= q

\* strings.Count(s, sub) for a non-empty sub: instances that do not overlap
RECURSIVE CountFrom(_, _, _)
CountFrom(s, sub, from) ==
    LET p == IndexOf(s, sub, from)
    IN IF p = 0 THEN 0 ELSE 1 + CountFrom(s, sub, p + Len(sub))

Count(s, sub) == CountFrom(s, sub, 1)

\* strings.Replace(s, old, new, n) for a non-empty old; n < 0: no limit
RECURSIVE Replace(_, _, _, _)
Replace(s, old, new, n) ==
    LET p == IndexOf(s, old, 1)
    IN IF n = 0 \/ p = 0
       THEN s
       ELSE SubSeq(s, 1, p - 1) \o new \o Replace(Drop(s, p + Len(old)), old, new, n - 1)

ReplaceAll(s, old, new) == Replace(s, old, new, -1)

\* strings.Split(s, "\n")
RECURSIVE SplitLines(_)
SplitLines(s) ==
    LET p == IndexOf(s, <<NL>>, 1)
    IN IF p = 0 THEN <<s>> ELSE <<SubSeq(s, 1, p - 1)>> \o SplitLines(Drop(s, p + 1))

\* strings.Join(lines, "\n")
RECURSIVE JoinLines(_)
JoinLines(lines) ==
    IF lines = <<>> THEN <<>>
    ELSE IF Len(lines) = 1 THEN lines[1]
    ELSE lines[1] \o <<NL>> \o JoinLines(Tail(lines))

\* a finished call
Call(op, args, after, ok, msg) ==
    [op |-> op, args |-> args, before |-> fsPath, after |-> after, ok |-> ok, msg |-> msg]

Failed(op, args, msg) == Call(op, args, fsPath, FALSE, msg)

\* variant: a missing path is an error
StatFailsError(args) == Failed("delete_file", args, "failed to delete file")

\* os.Stat fails: "Succeed silently if file doesn't exist"
StatFails(args) == Call("delete_file", args, fsPath, TRUE, "Successfully deleted")

DeleteFileCall(args) ==
    IF fsPath.kind = "absent" THEN StatFails(args)
    ELSE IF fsPath.kind = "dir" /\ ~args.recursive
    THEN Failed("delete_file", args, "cannot delete directory without recursive=true")
    ELSE Call("delete_file", args, Absent, TRUE, "Successfully deleted")

\* variant: more than one instance, the first one is edited
SeveralInstancesEdited(args, count) ==
    Call("edit_file", args, File(Replace(fsPath.content, args.old, args.new, 1)), TRUE,
         "Successfully edited")

\* if count > 1 { return "", fmt.Errorf("old_string appears %d times ...") }
SeveralInstances(args, count) == Failed("edit_file", args, <<"old_string appears", count>>)

EditFileCall(args) ==
    IF args.old = <<>> THEN Failed("edit_file", args, "old_string cannot be empty")
    ELSE IF fsPath.kind # "file" THEN Failed("edit_file", args, "failed to read file")
    ELSE IF IndexOf(fsPath.content, args.old, 1) = 0
    THEN Failed("edit_file", args, "old_string not found in file")
    ELSE IF args.replace_all
    THEN Call("edit_file", args, File(ReplaceAll(fsPath.content, args.old, args.new)), TRUE,
              IF Count(fsPath.content, args.old) > 1
              THEN <<"Successfully replaced occurrences", Count(fsPath.content, args.old)>>
              ELSE "Successfully edited")
    ELSE IF Count(fsPath.content, args.old) > 1
    THEN SeveralInstances(args, Count(fsPath.content, args.old))
    ELSE Call("edit_file", args, File(Replace(fsPath.content, args.old, args.new, 1)), TRUE,
              "Successfully edited")

\* variant: the last line cannot be the end of the range
EndInRangeStrict(args, n) == args.start_line <= args.end_line /\ args.end_line < n

\* not (endLine < startLine || endLine > len(lines))
EndInRange(args, n) == args.start_line <= args.end_line /\ args.end_line <= n

\* ReplaceLines and DeleteLines: middle is <<content>> or <<>>
LinesCall(op, args, middle, done) ==
    IF fsPath.kind # "file" THEN Failed(op, args, "failed to read file")
    ELSE IF args.start_line < 1 \/ args.start_line > Len(SplitLines(fsPath.content))
    THEN Failed(op, args, <<"start_line is out of range", Len(SplitLines(fsPath.content))>>)
    ELSE IF ~EndInRange(args, Len(SplitLines(fsPath.content)))
    THEN Failed(op, args, <<"end_line is invalid", Len(SplitLines(fsPath.content))>>)
    ELSE Call(op, args,
              File(JoinLines(SubSeq(SplitLines(fsPath.content), 1, args.start_line - 1)
                             \o middle
                             \o Drop(SplitLines(fsPath.content), args.end_line + 1))),
              TRUE, <<done, args.end_line - args.start_line + 1>>)

\* the texts of the file the tools are tried on
Units == {"a", "b", NL}

FileTexts ==
    {<<>>} \union {<<u>> : u \in Units} \union {<<u, v>> : u, v \in Units}
    \union {<<"a", "a", "a">>, <<"a", NL, "b">>, <<"a", NL, NL>>, <<NL, "a", NL, "a">>}

OldStrings == {<<>>, <<"a">>, <<"a", "a">>, <<NL, "a">>}
NewStrings == {<<>>, <<"b">>, <<"a", "a">>}
LineTexts == {<<"b">>, <<"b", NL, "b">>}
LineNumbers == 0..MaxLine

FsFrame ==
    UNCHANGED <<envVars, asstVars, pc, i, ctxExpired, iterVars, lastErr, turns, requests,
                convAtCall, toolObs, replayVars, exIn, exOut, filterVars, sessionVars,
                logVars, storeVars, retryVars, timeVars, sidVars, spinVars>>

Finish(call) ==
    /\ fsPath' = call.after
    /\ fsLog' = Append(fsLog, call)
    /\ FsFrame

\* before the calls: the path is given a file or a directory
PathCreated ==
    /\ fsLog = <<>>
    /\ fsPath = Absent
    /\ fsPath' \in {Directory} \union {File(t) : t \in FileTexts}
    /\ UNCHANGED fsLog
    /\ FsFrame

DeleteFile ==
    /\ Len(fsLog) < MaxFsOps
    /\ \E recursive \in BOOLEAN : Finish(DeleteFileCall([recursive |-> recursive]))

EditFile ==
    /\ Len(fsLog) < MaxFsOps
    /\ \E old \in OldStrings, new \in NewStrings, ra \in BOOLEAN :
          Finish(EditFileCall([old |-> old, new |-> new, replace_all |-> ra]))

ReplaceLines ==
    /\ Len(fsLog) < MaxFsOps
    /\ \E start \in LineNumbers, end \in LineNumbers, content \in LineTexts :
          Finish(LinesCall("replace_lines",
                           [start_line |-> start, end_line |-> end, content |-> content],
                           <<content>>, "Successfully replaced lines"))

DeleteLines ==
    /\ Len(fsLog) < MaxFsOps
    /\ \E start \in LineNumbers, end \in LineNumbers :
          Finish(LinesCall("delete_lines", [start_line |-> start, end_line |-> end],
                           <<>>, "Successfully deleted lines"))

NextFiles == PathCreated \/ DeleteFile \/ EditFile \/ ReplaceLines \/ DeleteLines

SpecFiles == InitStorage /\ [][NextFiles]_vars

(***************************************************************************)
(* Properties of the tool loop.                                            *)
(***************************************************************************)
\* strings.Contains(s, sub)
Contains(s, sub) == IndexFrom(s, sub, 1) # 0

\* C1: within an iteration the calls are handed to ExecuteTool one at a time and
\* in extraction order: call n+1 is not started before call n has returned, and
\* no two executions are in progress at once, in streaming and buffered mode.
SequentialDispatch ==
    /\ Cardinality(running) <= 1
    /\ Len(started) <= Len(toolCalls)
    /\ \A n \in 1..Len(started) : started[n] = toolCalls[n]
    /\ Len(results) <= Len(started)
    /\ Len(started) <= Len(results) + 1
    /\ running = {n \in 1..Len(started) : n > Len(results)}

\* the second call of an iteration is running and the first has returned
SecondCallRunning ==
    /\ pc = "exec"
    /\ Len(toolCalls) = 2
    /\ Len(started) = 2
    /\ Len(results) = 1
    /\ running = {2}

\* C2: a turn issues at most maxIterations model requests, and when the response
\* held a tool call in each of maxIterations iterations ProcessMessage returns
\* nil after the last of them without another request.
IterationCap ==
    /\ requests <= maxIterations
    /\ (pc = "idle" /\ turns > 0 /\ i = maxIterations)
           => (lastErr = "nil" /\ requests = maxIterations)

\* ProcessMessage has returned nil after maxIterations iterations with tool calls
CapReached ==
    /\ pc = "idle"
    /\ i = maxIterations
    /\ requests = maxIterations
    /\ lastErr = "nil"
    /\ Len(executed) >= maxIterations

RequestErrors == {"failed to create stream", "stream error", "failed to get response"}

\* Why a returned ProcessMessage has ended: a response without tool calls (the
\* buffered path returns an error when that response holds no choice), an error
\* of the request, or the loop counter at maxIterations.
EndReason ==
    \/ lastErr = "nil" /\ toolCalls = <<>> /\ conversation[Len(conversation)].Role = "assistant"
    \/ lastErr = "no response choices returned" /\ toolCalls = <<>>
    \/ lastErr \in RequestErrors
    \/ lastErr = "nil" /\ i = maxIterations

\* C3: when every request and every tool execution returns, every call of
\* ProcessMessage returns: the loop counter never passes maxIterations, the tool
\* loop never passes the last call, and the turn ends at the first response
\* without tool calls, at the first request error or with the cap exhausted.
TurnTerminates ==
    /\ [](i <= maxIterations /\ idx <= Len(toolCalls))
    /\ []((pc = "idle" /\ turns > 0) => EndReason)
    /\ [][(lastErr = "none" /\ lastErr' # "none") => (pc' = "idle" /\ pc # "idle")]_vars
    /\ (pc # "idle") ~> (pc = "idle")

\* a turn has ended at a response without tool calls after an iteration with some
EndedAfterTools ==
    /\ pc = "idle"
    /\ lastErr = "nil"
    /\ i = 1
    /\ toolCalls = <<>>
    /\ Len(executed) >= 1

\* ExecuteTool is about to return an error for the call it was given
ToolFails ==
    /\ pc = "exec"
    /\ ExecuteTool(toolCalls[idx].Tool, toolCalls[idx].Fields).err # <<>>

\* "Error: <message>" for that error
ErrorResult == <<"Error: ">> \o ExecuteTool(toolCalls[idx].Tool, toolCalls[idx].Fields).err

\* The return of a failed call: the result text is recorded, nothing is returned
\* to the caller, and the tool loop goes on to the next call if there is one.
ToolErrorStep ==
    /\ results' = Append(results, ErrorResult)
    /\ (toolCalls[idx].Tool \notin {<<t>> : t \in RegisteredTools}
            => ErrorResult = <<"Error: ", "unknown tool: ">> \o toolCalls[idx].Tool)
    /\ lastErr' = "none"
    /\ pc' = IF idx < Len(toolCalls) THEN "tool" ELSE "loop"
    /\ idx' = IF idx < Len(toolCalls) THEN idx + 1 ELSE idx

\* The step that ends the tool loop appends a user message that holds every
\* result text of the iteration.
AggregateHoldsResults ==
    (pc = "exec" /\ pc' = "loop") =>
        /\ Len(conversation') = Len(conversation) + 1
        /\ conversation'[Len(conversation')].Role = "user"
        /\ \A n \in 1..Len(results') :
               Contains(conversation'[Len(conversation')].Content, results'[n])

ToolErrorRecorded ==
    /\ [][(ToolFails => ToolErrorStep) /\ AggregateHoldsResults]_vars
    /\ [](lastErr \notin {"none", "nil"} => started = <<>>)
    /\ ToolFails ~> (pc = "loop" /\ Len(started) = Len(toolCalls)
                                 /\ Len(results) = Len(toolCalls))

NextRequest == pc \in {"create", "request"}

\* C4 as stated: a tool's error is recorded as "Error: <message>" and put in the
\* result message, the remaining calls of the iteration run, ProcessMessage
\* returns no error for it, and the next model request is then issued.
ToolErrorThenRequest ==
    /\ ToolErrorRecorded
    /\ ToolFails ~> NextRequest

\* C4: a tool's error is recorded as "Error: <message>" and put in the result
\* message, the remaining calls of the iteration run, ProcessMessage returns no
\* error for it, and the next model request is then issued unless the iteration
\* was the last the cap allows, in which case ProcessMessage returns nil.
ToolErrorContinues ==
    /\ ToolErrorRecorded
    /\ ToolFails ~> (NextRequest \/ (pc = "idle" /\ lastErr = "nil" /\ i = maxIterations))

\* the request after an iteration whose first call named an unregistered tool
\* carries the error text
UnknownToolReported ==
    /\ pc \in {"create", "request"}
    /\ i = 1
    /\ Len(executed) = 2
    /\ Contains(sent[Len(sent)].Content, <<"Error: ", "unknown tool: ", "frobnicate">>)

RequestFails == lastErr = "none" /\ lastErr' \in RequestErrors

\* C5: when the request of an iteration fails (the stream is not created, Recv
\* fails, or the buffered request fails) ProcessMessage returns the error at once:
\* the request is not issued again, the history is still what the request sent
\* (no assistant message of the attempt), and no tool runs in the iteration.
RequestFailureReturns ==
    /\ [][RequestFails =>
            /\ pc \in {"create", "recv", "request"}
            /\ pc' = "idle"
            /\ requests' = requests
            /\ conversation' = conversation
            /\ conversation = sent
            /\ sessionMessages' = sessionMessages
            /\ executed' = executed
            /\ started = <<>>
            /\ started' = <<>>]_vars
    /\ [](requests <= i + 1)

\* Recv failed in the second iteration after part of the response had arrived
StreamBrokeMidway ==
    /\ pc = "idle"
    /\ lastErr = "stream error"
    /\ i = 1
    /\ fullContent # <<>>
    /\ conversation = sent

\* C6: when the deadline of the turn passes while the streaming path waits for
\* chunks, ProcessMessage returns an error and the history is what it was
\* before the call.
TimeoutLeavesHistory ==
    (streaming /\ pc = "idle" /\ ctxExpired /\ lastErr = "stream error")
        => conversation = convAtCall

\* a read_file call as <<tool, params>>, the params in json.Marshal's form
ReadCall(path) ==
    <<<<"read_file">>, <<"{">> \o Str("file_path") \o <<":">> \o Str(path) \o <<"}">>>>

\* the calls handed to ExecuteTool in this iteration, each as <<tool, params>>
Dispatched == [n \in 1..Len(started) |-> <<started[n].Tool, started[n].Params>>]

\* "[1] read_file result:\n<a.go>\n\n[2] read_file result:\n<b.go>\n\n"
TwoReadsMessage ==
    Message("user",
            <<"[", "1", "] ", "read_file", " result:", NL>> \o FileContent(<<"a.go">>)
                \o <<NL, NL>>
                \o <<"[", "2", "] ", "read_file", " result:", NL>> \o FileContent(<<"b.go">>)
                \o <<NL, NL>>)

ArraysOfTwoReads == {ArrayAB(<<" ">>), ArrayAB(<<>>)}

\* C7: when the response is a JSON array of the read_file calls for a.go and
\* b.go, exactly these two calls are executed in array order, one message
\* "[1] read_file result:\n...\n\n[2] read_file result:\n...\n\n" is appended to
\* the history, and the next request's messages end with it.
ArrayOfTwoReadsRuns ==
    /\ (pc = "loop" /\ fullResponse \in ArraysOfTwoReads)
           => /\ Dispatched = <<ReadCall("a.go"), ReadCall("b.go")>>
              /\ conversation[Len(conversation)] = TwoReadsMessage
              /\ conversation[Len(conversation) - 1] = Message("assistant", fullResponse)
    /\ (pc \in {"create", "request"} /\ i > 0
            /\ sent[Len(sent) - 1].Content \in ArraysOfTwoReads)
           => sent[Len(sent)] = TwoReadsMessage

\* C8: the calls the extractor returns hold no two with the same tool name and
\* the same params.
NoDuplicateCalls ==
    exOut.done =>
        \A a, b \in 1..Len(exOut.calls) :
            (exOut.calls[a].Tool = exOut.calls[b].Tool
                /\ exOut.calls[a].Params = exOut.calls[b].Params) => a = b

\* "[n] <tool> result:\n<result>\n\n" for each call, in the order of execution
NumberedEntries(calls, res) ==
    [n \in 1..Len(res) |->
        <<"[">> \o Itoa(n) \o <<"] ">> \o calls[n].Tool \o <<" result:", NL>> \o res[n]
            \o <<NL, NL>>]

AggregateOf(calls, res) ==
    IF Len(res) = 1 THEN <<"Tool result:", NL>> \o res[1]
    ELSE Concat(NumberedEntries(calls, res))

\* C9: while the N >= 1 calls of an iteration run the history is left alone, and
\* the step that completes the last of them appends exactly one user message:
\* "Tool result:\n<result>" for N = 1, and for N > 1 the entries
\* "[n] <tool> result:\n<result>\n\n", n = 1..N, in execution order.
ResultMessageAppended ==
    [][(pc \in {"tool", "exec"}) =>
         (IF pc' = "loop"
          THEN /\ Len(toolCalls) >= 1
               /\ Len(results') = Len(toolCalls)
               /\ Len(started) = Len(toolCalls)
               /\ conversation' =
                      Append(conversation, Message("user", AggregateOf(started, results')))
          ELSE conversation' = conversation)]_vars

\* an iteration of one call and then an iteration of two have completed
OneThenTwoResults ==
    /\ pc = "loop"
    /\ i = 2
    /\ Len(results) = 2
    /\ Len(conversation) = 6
    /\ conversation[4] = Message("user", <<"Tool result:", NL, "package a">>)
    /\ conversation[6] = TwoReadsMessage

\* C10: the same turns with the same model responses and tool outcomes leave the
\* same history, the same tool executions, the same persisted messages, the same
\* usage totals and the same success or error in streaming and in buffered mode.
ModesAgree == (phase = 2 /\ TurnsOver) => Outcome = first


(***************************************************************************)
(* Properties of the stream filter.                                        *)
(***************************************************************************)
\* the stream is over: every chunk was processed, then Flush was called once
StreamDone == pending = <<>> /\ flushes = 1 /\ ~earlyFlush

\* C14: after any Process and Flush calls, FullContent() is the concatenation,
\* in order, of every chunk passed to Process.
FullContentIsTranscript == filter.fullContent = fedText

ThinkFedAndFlushed ==
    /\ fedText = ThinkOpen \o <<"H", "i">> \o ThinkClose
    /\ flushes >= 1
    /\ shown = <<>>
    /\ filter.fullContent = fedText

\* C15: no character received inside a think block, closed or not, is in a
\* string returned by Process or by the Flush at the end of the stream.
ThinkNeverReturned == StreamDone => ~leaked

\* C16: a stream P + "<think>" + R + "</think>" + S, R without "</think>", P and
\* S without "<", cut into chunks in any way, displays P + S after Process and
\* Flush, and FullContent() is the whole text.
EnclosedThinkRemoved ==
    \A P \in Plain, R \in Inner, S \in Plain :
        (StreamDone /\ fedText = Enclosed(P, R, S))
            => (shown = P \o S /\ filter.fullContent = Enclosed(P, R, S))

SecretReasoningHidden ==
    /\ StreamDone
    /\ fedText = Enclosed(<<>>, <<"s", "e", "c", "r", "e", "t", " ", "r", "e", "a", "s", "o",
                                  "n", "i", "n", "g">>, <<"H", "e", "l", "l", "o">>)
    /\ shown = <<"H", "e", "l", "l", "o">>
    /\ filter.fullContent = fedText

\* C17: for every response text and every chunking, the text the filter shows
\* (Process results, then Flush, trimmed) is cleanResponse of the full text.
FilterAgreesWithCleanResponse ==
    StreamDone => TrimSpace(shown) = cleanResponse(filter.fullContent)


(***************************************************************************)
(* Properties of the history and of the usage counters.                    *)
(***************************************************************************)
LastMessage(conv) == conv[Len(conv)]

\* the step appends an assistant message to the history
AppendsAssistant ==
    /\ Len(conversation') = Len(conversation) + 1
    /\ LastMessage(conversation').Role = "assistant"

\* C11: an assistant message that ProcessMessage appends holds the complete
\* unfiltered response text of the iteration, with or without tool calls, and
\* it is appended before any tool of the iteration is executed.
AssistantMessageIsRawResponse ==
    [][AppendsAssistant =>
          /\ conversation' =
                 Append(conversation, Message("assistant", ResponseAt(script, i).content))
          /\ started' = <<>> /\ results' = <<>> /\ running' = {}
          /\ executed' = executed
          /\ pc' = (IF toolCalls' = <<>> THEN "idle" ELSE "tool")]_vars

RawThinkAndJsonKept ==
    /\ pc = "tool"
    /\ idx = 1
    /\ started = <<>>
    /\ LastMessage(conversation) =
           Message("assistant",
                   ThinkOpen \o <<"Hi">> \o ThinkClose \o <<"Hi", " ">> \o ReadA(<<" ">>))

IsPrefix(s, t) == Len(s) <= Len(t) /\ SubSeq(t, 1, Len(s)) = s

\* the history starts with the only system message it holds
SystemFirstOnly ==
    /\ Len(conversation) >= 1
    /\ conversation[1].Role = "system"
    /\ \A n \in 2..Len(conversation) : conversation[n].Role # "system"

\* C12: through New, ProcessMessage, NewSession and LoadSession the history is
\* never empty, starts with a system message and holds no other system message;
\* the steps of ProcessMessage only append to it.
HistoryWellFormed ==
    /\ []SystemFirstOnly
    /\ [][(sessionOps' = sessionOps) => IsPrefix(conversation, conversation')]_vars

TurnAfterLoadSession ==
    /\ pc = "idle"
    /\ turns = 1
    /\ sessionOps >= 1
    /\ Len(conversation) > 5
    /\ IsPrefix(RebuiltConversation(OldSession), conversation)

UsageNotLower(u, v) ==
    /\ u.PromptTokens <= v.PromptTokens
    /\ u.CompletionTokens <= v.CompletionTokens
    /\ u.TotalTokens <= v.TotalTokens

\* CreateChatCompletion returns a response that reports usage
BufferedUsageArrives ==
    /\ pc = "request"
    /\ pc' # "request"
    /\ lastErr' # "failed to get response"
    /\ ResponseAt(script, i).reported

\* stream.Recv returns a chunk that reports usage
StreamedUsageArrives ==
    /\ pc = "recv"
    /\ stream # <<>>
    /\ pc' = "recv"
    /\ stream' = Tail(stream)
    /\ Head(stream).hasUsage

UsageStep(withChoice) ==
    /\ UsageNotLower(sessionUsage, sessionUsage')
    /\ (BufferedUsageArrives /\ (withChoice => ResponseAt(script, i).choices))
          => sessionUsage' = AddUsage(sessionUsage, ResponseAt(script, i).usage)
    /\ StreamedUsageArrives => sessionUsage' = AddUsage(sessionUsage, Head(stream).usage)

\* C13: the session token counters never decrease, whatever the operation, and
\* every model response that reports usage adds its counts to them.
UsageAccumulates == [][UsageStep(FALSE)]_vars

\* the same for the responses that carry a choice
UsageAccumulatesWithChoice == [][UsageStep(TRUE)]_vars


(***************************************************************************)
(* Properties of the extractor.                                            *)
(***************************************************************************)
\* a span of the shape {"tool": starts at i
ToolSpanAt(s, at) ==
    /\ s[at] = "{"
    /\ HasPrefixAt(s, SkipClass(s, at + 1, RegexSpace), ToolKey)
    /\ HasPrefixAt(s, SkipClass(s, SkipClass(s, at + 1, RegexSpace) + Len(ToolKey),
                                RegexSpace), <<":">>)

HasToolSpan(s) == \E n \in 1..Len(s) : ToolSpanAt(s, n)

\* C18: a response whose think-stripped text holds no {"tool": span gives an
\* empty call list and the cleaned text as leading prose.
NoSpanNoCalls ==
    (exOut.done /\ ~HasToolSpan(cleanResponse(exIn)))
        => (exOut.calls = <<>> /\ exOut.text = cleanResponse(exIn))

\* what precedes the one tool-call object of a response
Proses == {<<>>, <<"Hi">>, <<" ">>, <<NL>>, ThinkOpen, ThinkClose}

\* the one call of the object obj, and the text before it as leading prose
OneCallOf(prose, obj) ==
    (exOut.done /\ exIn = prose \o obj)
        => /\ exOut.calls = <<UnmarshalToolCall(obj).call>>
           /\ exOut.text = cleanResponse(prose)

\* C19: a response with exactly one well-formed tool-call object, after prose
\* or not, wrapped over lines or not, gives exactly that call and the text
\* before the object as leading prose.
OneObjectOneCall ==
    \A prose \in Proses :
        \A obj \in {ReadA(<<" ">>), ReadA(<<>>), Frobnicate, ReadWrapped, WriteNested,
                     WriteBraces} :
            OneCallOf(prose, obj)

\* the same for the objects whose params hold no brace
FlatObjectOneCall ==
    \A prose \in Proses :
        \A obj \in {ReadA(<<" ">>), ReadA(<<>>), Frobnicate, ReadWrapped} :
            OneCallOf(prose, obj)

\* C20: a tool-call object whose params hold a nested object or a string with
\* braces is found as one span and returned as one call with its params.
BracedParamsOneCall ==
    \A obj \in {WriteNested, WriteBraces} :
        (exOut.done /\ exIn = obj)
            => (Len(exOut.calls) = 1 /\ exOut.calls[1] = UnmarshalToolCall(obj).call)

\* C21: a tool-call object whose params hold a string with a literal newline
\* and a brace is returned as one parsed call, the string intact.
NewlineBraceStringParsed ==
    (exOut.done /\ exIn = WriteNewlineBrace)
        => /\ Len(exOut.calls) = 1
           /\ exOut.calls[1].Tool = <<"write_file">>
           /\ Len(exOut.calls[1].Fields) = 1
           /\ exOut.calls[1].Fields[1].str = <<"a", NL, "{">>

\* the same object without the brace
NewlineStringParsed == (exOut.done /\ exIn = WriteNewline) => Len(exOut.calls) = 1

\* the text of the span m of s
Span(s, m) == SubSeq(s, m.start, m.end)

\* the singular matches of s that give a call
CallMatches(s) ==
    {m \in {FindAllJson(s, 1)[n] : n \in 1..Len(FindAllJson(s, 1))} :
        UnmarshalToolCall(Span(s, m)).ok /\ UnmarshalToolCall(Span(s, m)).call.Tool # <<>>}

\* the array match of s, when it gives a call
CallArrays(s) ==
    {m \in {FindArray(s, 1)} :
        /\ m.start # 0
        /\ UnmarshalToolCalls(Span(s, m)).ok
        /\ \E n \in 1..Len(UnmarshalToolCalls(Span(s, m)).calls) :
              UnmarshalToolCalls(Span(s, m)).calls[n].Tool # <<>>}

\* where the detected calls of s start, objects and array alike
CallStarts(s) == {m.start : m \in CallMatches(s) \cup CallArrays(s)}

ProseBeforeCalls(s) == TrimSpace(SubSeq(s, 1, Minimum(CallStarts(s)) - 1))

\* C22: when a call is found, the leading prose is the cleaned text before the
\* earliest start of a detected call, object or array, trimmed; it is empty when
\* that call starts the text.
ProseEndsAtFirstCall ==
    (exOut.done /\ exOut.calls # <<>>)
        => exOut.text = ProseBeforeCalls(cleanResponse(exIn))

\* the same for the responses whose calls are objects outside any array
ProseEndsAtFirstObject ==
    (exOut.done /\ exOut.calls # <<>> /\ CallArrays(cleanResponse(exIn)) = {}
       /\ \A n \in 1..Len(FindAllJson(cleanResponse(exIn), 1)) :
             FindAllJson(cleanResponse(exIn), 1)[n] \in CallMatches(cleanResponse(exIn)))
        => exOut.text = ProseBeforeCalls(cleanResponse(exIn))

\* the call matches of s that start after its array
CallsAfterArray(s) == {m \in CallMatches(s) : m.start > FindArray(s, 1).end}

\* the calls the array of s decodes to
ArrayCalls(s) == UnmarshalToolCalls(Span(s, FindArray(s, 1))).calls

\* s holds an array of calls and then one call object, a call the array lacks
ArrayThenObject(s) ==
    /\ CallArrays(s) # {}
    /\ Cardinality(CallsAfterArray(s)) = 1
    /\ \A m \in CallsAfterArray(s), n \in 1..Len(ArrayCalls(s)) :
          UnmarshalToolCall(Span(s, m)).call # ArrayCalls(s)[n]

\* C23: the calls are returned in the order of their positions in the text:
\* the call object that follows an array of calls is the last call returned.
CallsInTextOrder ==
    (exOut.done /\ ArrayThenObject(cleanResponse(exIn)))
        => \A m \in CallsAfterArray(cleanResponse(exIn)) :
               exOut.calls[Len(exOut.calls)] = UnmarshalToolCall(Span(cleanResponse(exIn), m)).call

\* the calls of a response without an array are those of its matches, in order
ObjectsInTextOrder ==
    (exOut.done /\ FindArray(cleanResponse(exIn), 1).start = 0)
        => \A k, n \in 1..Len(exOut.calls) :
              k < n =>
                \E a, b \in CallMatches(cleanResponse(exIn)) :
                    /\ a.start < b.start
                    /\ exOut.calls[k] = UnmarshalToolCall(Span(cleanResponse(exIn), a)).call
                    /\ exOut.calls[n] = UnmarshalToolCall(Span(cleanResponse(exIn), b)).call

\* C24: on a text without "</think>", with or without an unclosed "<think>",
\* the think-stripping step removes nothing but the surrounding white space.
NoClosingTagNothingRemoved ==
    ~Contains(exIn, ThinkClose)
        => /\ cleanResponse(exIn) = TrimSpace(exIn)
           /\ (exOut.done /\ exOut.calls = <<>>) => exOut.text = TrimSpace(exIn)

UnclosedThinkKept ==
    /\ exOut.done
    /\ exIn = <<" ">> \o ThinkOpen
    /\ exOut.text = ThinkOpen


(***************************************************************************)
(* Properties of the stored session.                                       *)
(***************************************************************************)
\* what GetSession reads back from the session file
Readable(file) == IF file.parses THEN file.messages ELSE <<>>

\* the messages of kept are all in stored, in order; the oldest one may have
\* been trimmed away when kept was full
KeptIn(kept, stored) ==
    \E k \in {0} \cup (IF Len(kept) >= MaxHistoryLength THEN {1} ELSE {}) :
        /\ Len(stored) >= Len(kept) - k
        /\ SubSeq(stored, 1, Len(kept) - k) = Drop(kept, k + 1)

\* C25: when the process stops during a turn, between or inside the steps that
\* persist, the messages that completed AddMessage calls stored are still in
\* the stored session, unchanged.
CrashKeepsStored == (spc = "crashed") => KeptIn(committed, Readable(sessionFile))

\* the same when the process stops between two AddMessage calls or between
\* the two files' writes
CrashBetweenWritesKeepsStored ==
    (spc = "crashed" /\ sessionFile.parses) => KeptIn(committed, sessionFile.messages)

\* AddMessage returns nil
AddMessageReturns == spc = "indexing" /\ spc' = "idle"

IsRecord(msg) == msg.ToolCall # <<>>

\* C26 as stated: a stored ToolCallRecord is still stored, unchanged, after
\* every later AddMessage call.
RecordStaysForever ==
    [][AddMessageReturns =>
          \A n \in 1..Len(committed) :
              IsRecord(committed[n]) =>
                  \E k \in 1..Len(committed') : committed'[k] = committed[n]]_vars

\* the oldest stored message is dropped by the call
Trimmed == IF Len(committed) >= MaxHistoryLength THEN 1 ELSE 0

\* C26: a stored ToolCallRecord is still stored, unchanged and in its place in
\* the order, after a later AddMessage call, unless it was the oldest of
\* MaxHistoryLength stored messages: then the call drops it.
RecordStaysUntilTrimmed ==
    [][AddMessageReturns =>
          /\ Len(committed') = Len(committed) + 1 - Trimmed
          /\ \A n \in (1 + Trimmed)..Len(committed) :
                 IsRecord(committed[n]) => committed'[n - Trimmed] = committed[n]]_vars

RecordIsOldestOfFull ==
    /\ spc = "idle"
    /\ Len(committed) = MaxHistoryLength
    /\ committed[1] = RecordMessage
    /\ sessionFile = FileOf(committed)


(***************************************************************************)
(* Properties of withRetry.                                                *)
(***************************************************************************)
\* every call of fn but the last one failed with a transient error
TransientBefore(log) == \A n \in 1..(Len(log) - 1) : log[n] = "transient"

Last(log) == log[Len(log)]

\* what withRetry returned fits what fn returned
ReturnFits ==
    /\ opLog # <<>>
    /\ TransientBefore(opLog)
    /\ rOut.kind = "ok" => Last(opLog) = "nil"
    /\ rOut.kind = "fn" => (Last(opLog) = "other" /\ rOut.err = "other")
    /\ rOut.kind = "ctx" =>
          (Last(opLog) = "transient" /\ Len(opLog) < maxRetries /\ rctxDone)
    /\ rOut.kind = "after attempts" =>
          (Last(opLog) = "transient" /\ Len(opLog) = maxRetries /\ rOut.err = "transient")
    /\ rOut.kind # "none"

\* where withRetry stands fits what fn returned so far; a retry follows a wait
RetryRounds ==
    /\ Len(opLog) <= maxRetries
    /\ rpc = "returned" => ReturnFits
    /\ rpc = "call" => (Len(waits) = Len(opLog) /\ TransientBefore(Append(opLog, "nil")))
    /\ rpc = "wait" => (Len(waits) = Len(opLog) - 1 /\ Last(opLog) = "transient")

\* a wait whose context is over ends with the context's error, fn is not called
CancelledWaitReturns ==
    (rpc = "wait" /\ rctxDone) => (rpc' = "returned" /\ rOut'.kind = "ctx" /\ opLog' = opLog)

\* fn is called again only after a wait of the current backoff that ran to its end
RetryAfterBackoff ==
    (rpc # "call" /\ rpc' = "call" /\ opLog # <<>> /\ opLog' = opLog) =>
        (rpc = "wait" /\ ~rctxDone /\ waits' = Append(waits, backoff))

\* C27: withRetry calls fn at most 3 times; it returns at the first success
\* and at the first error that is not transient, retries a transient error
\* after a backoff wait, returns the context's error without a further call
\* when the context ends during a wait, and after 3 transient errors returns
\* an error that wraps the last one.
RetryContract ==
    /\ []RetryRounds
    /\ [][CancelledWaitReturns]_vars
    /\ [][RetryAfterBackoff]_vars

ThreeTransientFailures ==
    /\ rpc = "returned"
    /\ opLog = <<"transient", "transient", "transient">>
    /\ waits = <<1, 2>>
    /\ rOut = Returned("after attempts", "transient")


(***************************************************************************)
(* Properties of the file tools.                                           *)
(***************************************************************************)
DeleteCalls == {n \in 1..Len(fsLog) : fsLog[n].op = "delete_file"}

\* C28: DeleteFile on a path that does not exist returns the success message
\* without an error and changes nothing; a second DeleteFile with the same
\* arguments gives the result of the first one and leaves the path as the
\* first one left it.
DeleteFileIdempotent ==
    /\ \A n \in DeleteCalls :
          fsLog[n].before = Absent =>
              /\ fsLog[n].ok
              /\ fsLog[n].msg = "Successfully deleted"
              /\ fsLog[n].after = Absent
    /\ \A n \in DeleteCalls :
          (n + 1 \in DeleteCalls /\ fsLog[n + 1].args = fsLog[n].args) =>
              /\ fsLog[n + 1].ok = fsLog[n].ok
              /\ fsLog[n + 1].msg = fsLog[n].msg
              /\ fsLog[n + 1].after = fsLog[n].after

FileDeletedTwice ==
    /\ Len(fsLog) = 2
    /\ DeleteCalls = {1, 2}
    /\ fsLog[1].before = File(<<"a", NL, "b">>)
    /\ fsLog[1].after = Absent
    /\ fsLog[2].before = Absent
    /\ fsLog[2].ok

EditCalls == {n \in 1..Len(fsLog) : fsLog[n].op = "edit_file"}

\* the positions of s where old stands
Matches(s, old) == {p \in 1..Len(s) : HasPrefixAt(s, p, old)}

\* old stands in s more than once, one instance after the end of another
OccursMoreThanOnce(s, old) ==
    \E p, q \in Matches(s, old) : p + Len(old) <= q

\* s from position p on, every instance of old met from left to right replaced
RECURSIVE EachReplaced(_, _, _, _)
EachReplaced(s, old, new, p) ==
    IF p > Len(s) THEN <<>>
    ELSE IF HasPrefixAt(s, p, old) THEN new \o EachReplaced(s, old, new, p + Len(old))
    ELSE <<s[p]>> \o EachReplaced(s, old, new, p + 1)

\* s with the instance of old at position p replaced
ReplacedAt(s, old, new, p) == SubSeq(s, 1, p - 1) \o new \o Drop(s, p + Len(old))

EditRefused(c) == ~c.ok /\ c.after = c.before

EditFits(c) ==
    /\ c.args.old = <<>> => EditRefused(c)
    /\ c.before.kind = "file" =>
          /\ Matches(c.before.content, c.args.old) = {} => EditRefused(c)
          /\ (OccursMoreThanOnce(c.before.content, c.args.old) /\ ~c.args.replace_all) =>
                EditRefused(c)
          /\ (c.ok /\ ~c.args.replace_all) =>
                /\ ~OccursMoreThanOnce(c.before.content, c.args.old)
                /\ \E p \in Matches(c.before.content, c.args.old) :
                      c.after = File(ReplacedAt(c.before.content, c.args.old, c.args.new, p))
          /\ (c.ok /\ c.args.replace_all) =>
                c.after = File(EachReplaced(c.before.content, c.args.old, c.args.new, 1))
          /\ c.ok \/ EditRefused(c)

LineCalls == {n \in 1..Len(fsLog) : fsLog[n].op \in {"replace_lines", "delete_lines"}}

\* the positions of the line ends of s
LineEnds(s) == {p \in 1..Len(s) : s[p] = NL}

\* the number of lines of s: one more than it has line ends
LineCount(s) == Cardinality(LineEnds(s)) + 1

\* the positions of the units of line k of s
LinePositions(s, k) ==
    {p \in 1..Len(s) : s[p] # NL /\ Cardinality({q \in LineEnds(s) : q < p}) = k - 1}

\* line k of s
LineOf(s, k) ==
    IF LinePositions(s, k) = {} THEN <<>>
    ELSE SubSeq(s, CHOOSE p \in LinePositions(s, k) : \A q \in LinePositions(s, k) : p <= q,
                   CHOOSE p \in LinePositions(s, k) : \A q \in LinePositions(s, k) : p >= q)

\* lines from..to of s
LinesOf(s, from, to) == [k \in 1..(to - from + 1) |-> LineOf(s, from + k - 1)]

\* what the call puts between the lines it keeps
Middle(c) == IF c.op = "replace_lines" THEN <<c.args.content>> ELSE <<>>

LinesFits(c) ==
    /\ c.ok <=> /\ 1 <= c.args.start_line
                /\ c.args.start_line <= c.args.end_line
                /\ c.args.end_line <= LineCount(c.before.content)
    /\ c.ok =>
          c.after = File(JoinLines(LinesOf(c.before.content, 1, c.args.start_line - 1)
                                   \o Middle(c)
                                   \o LinesOf(c.before.content, c.args.end_line + 1,
                                              LineCount(c.before.content))))
    /\ ~c.ok => c.after = c.before

\* C30: on a file of n lines DeleteLines and ReplaceLines succeed exactly when
\* 1 <= start <= end <= n; the file then holds lines 1..start-1, the content
\* (ReplaceLines only) and lines end+1..n; otherwise an error is returned and
\* the file is as it was.
LineRangeContract ==
    \A n \in LineCalls : fsLog[n].before.kind = "file" => LinesFits(fsLog[n])

LinesReplacedThenDeleted ==
    /\ Len(fsLog) = 2
    /\ fsLog[1].op = "replace_lines"
    /\ fsLog[1].before = File(<<"a", NL, NL>>)
    /\ fsLog[1].args = [start_line |-> 2, end_line |-> 3, content |-> <<"b", NL, "b">>]
    /\ fsLog[1].after = File(<<"a", NL, "b", NL, "b">>)
    /\ fsLog[2].op = "delete_lines"
    /\ fsLog[2].args = [start_line |-> 1, end_line |-> 2]
    /\ fsLog[2].after = File(<<"b">>)


(***************************************************************************)
(* Properties of the stream filter's buffer.                               *)
(***************************************************************************)
\* s is a prefix of "<think>" and shorter than it
ProperThinkPrefix(s) == HasPrefix(ThinkOpen, s) /\ s # ThinkOpen

\* C31: while the filter is not inside a think block, the buffer is a proper
\* prefix of "<think>" (possibly empty) after every Process call: a buffer that
\* can no longer become "<think>" has been displayed and reset.
BufferIsThinkPrefix == ~filter.inThinkTag => ProperThinkPrefix(filter.buffer)

\* outside a think block the buffer is empty or begins with "<" and is shorter
\* than "<think>"
BufferIsShortTag ==
    ~filter.inThinkTag =>
        \/ filter.buffer = <<>>
        \/ filter.buffer[1] = "<" /\ Len(filter.buffer) < Len(ThinkOpen)


(***************************************************************************)
(* Properties of the spinners and the stream of a turn.                    *)
(***************************************************************************)



\* C32: on every return of ProcessMessage (normal end, iteration cap, stream
\* creation error, stream receive error, buffered request error) no spinner is
\* left running and no stream is left open; never do two spinners run at once.
SpinnersAndStreamReleased ==
    /\ spinning \in {0, 1}
    /\ pc \in {"idle", "loop"} => (spinning = 0 /\ ~streamOpen)
    /\ streamOpen => (streaming /\ pc = "recv")
    /\ spinning = 1 => (enableSpinner /\ pc \in {"create", "request", "recv", "exec"})

StreamErrorWithSpinner ==
    /\ pc = "idle"
    /\ lastErr = "stream error"
    /\ enableSpinner
    /\ streaming
    /\ fullContent # <<>>
    /\ spinning = 0
    /\ ~streamOpen


(***************************************************************************)
(* Properties of the turn's deadline.                                      *)
(***************************************************************************)
\* the step in which ExecuteTool returns
ToolReturns == pc = "exec" /\ pc' # "exec"

\* what ExecuteTool gives for the call that runs
RunningResult == ResultText(ExecuteTool(toolCalls[idx].Tool, toolCalls[idx].Fields))

\* a dispatched tool ends by returning its own result, which is recorded; after
\* the last one the results are appended to the history
ToolRunsToCompletion ==
    ToolReturns =>
        /\ pc' \in {"tool", "loop"}
        /\ results' = Append(results, RunningResult)
        /\ pc' = "loop" =>
              /\ Len(conversation') = Len(conversation) + 1
              /\ LastMessage(conversation') = Message("user", allResults')
        /\ lastErr' = lastErr
        /\ ctxExpired' = ctxExpired

\* the passed deadline ends the turn only at a request, as that request's error
DeadlineSurfacesAtRequest ==
    (pc # "idle" /\ pc' = "idle" /\ ctxExpired') =>
        /\ pc \in {"create", "recv", "request"}
        /\ lastErr' \in {"failed to create stream", "stream error", "failed to get response"}

\* a request issued after the deadline has passed fails with the deadline's error
RequestAfterDeadlineFails ==
    (DeadlinePassed /\ pc \in {"create", "request"} /\ pc' # pc) =>
        (pc' = "idle" /\ ctxExpired')

\* C33: once a tool is dispatched, the expiry of the turn's timeout does not
\* interrupt it: the tool returns its own result, the result is recorded and
\* appended to the history, and the expired timeout shows only as the error of
\* the next model request.
DeadlineLeavesToolsAlone ==
    /\ [][ToolRunsToCompletion]_vars
    /\ [][DeadlineSurfacesAtRequest]_vars
    /\ [][RequestAfterDeadlineFails]_vars

ExpiredDuringToolThenRequestFailed ==
    /\ expiry.at = "exec"
    /\ pc = "idle"
    /\ ctxExpired
    /\ lastErr \in {"failed to create stream", "failed to get response"}
    /\ Len(conversation) >= 4
    /\ LastMessage(conversation).Role = "user"
    /\ LastMessage(conversation).Content # UserMessage


(***************************************************************************)
(* Properties of the history over several turns.                           *)
(***************************************************************************)
RoleAfter(role) == IF role = "user" THEN "assistant" ELSE "user"

\* C34: in every history reachable through ProcessMessage calls, however each
\* turn ended, the roles after the system message alternate user, assistant,
\* user, ...: no two neighbours have the same role.
RolesAlternate ==
    /\ Len(conversation) >= 2 => conversation[2].Role = "user"
    /\ \A n \in 2..(Len(conversation) - 1) :
          conversation[n + 1].Role = RoleAfter(conversation[n].Role)

\* within the first turn the roles alternate
RolesAlternateInFirstTurn == turns <= 1 => RolesAlternate


(***************************************************************************)
(* Properties of the stored history's length.                              *)
(***************************************************************************)
\* the newest n elements of a sequence
Newest(all, n) == IF Len(all) > n THEN SubSeq(all, Len(all) - n + 1, Len(all)) ELSE all

\* a call that returns nil leaves the newest messages, in order, and their count
StoredIsNewest ==
    AddMessageReturns =>
        /\ committed' = Newest(Append(committed, Last(inMemory)), MaxHistoryLength)
        /\ sessionFile' = FileOf(committed')
        /\ indexFile' = [parses |-> TRUE, count |-> Len(committed')]

\* C35: after every AddMessage that returns nil the session's stored list has
\* at most MaxHistoryLength messages, holds the messages added last in the
\* order they were added, and the index's MessageCount is the list's length.
StoredHistoryBounded ==
    /\ [](Len(committed) <= MaxHistoryLength)
    /\ [](spc = "idle" => (sessionFile = FileOf(committed)
                           /\ indexFile.count = Len(committed)))
    /\ [][StoredIsNewest]_vars

HistoryTrimmedToNewest ==
    /\ spc = "idle"
    /\ adds = MaxHistoryLength + 1
    /\ Len(committed) = MaxHistoryLength
    /\ committed[1] = RecordMessage
    /\ indexFile.count = MaxHistoryLength


(***************************************************************************)
(* Properties of the session ids.                                          *)
(***************************************************************************)
\* the call that just ended returned an error
OpFailed == lastOp' # lastOp /\ lastOp'.err # "nil"

\* an error return changes neither the Assistant's session, nor its history,
\* nor the active session id
ErrorLeavesSession ==
    OpFailed => UNCHANGED <<asstSession, conversation, activeID>>

\* C36: after every New, NewSession or LoadSession that returns nil the
\* Assistant's session id is the storage manager's active session id; a
\* NewSession or LoadSession that returns an error leaves the Assistant's
\* session, its history and the active session id as they were.
SessionIdsAgree ==
    /\ []((lastOp.err = "nil" /\ lastOp # NoOp) => asstSession = activeID)
    /\ [][ErrorLeavesSession]_vars

\* the same for the two errors that arise before anything is stored
EarlyErrorLeavesSession ==
    [][(OpFailed /\ lastOp'.err \in {"storage not initialized", "session not found"})
          => UNCHANGED <<asstSession, conversation, activeID>>]_vars

\* the ids agree after NewSession and LoadSession return nil
IdsAgreeAfterSessionCalls ==
    (lastOp.err = "nil" /\ lastOp.op \in {"NewSession", "LoadSession"}) =>
        asstSession = activeID


(***************************************************************************)
(* Properties of the Spinner.                                              *)
(***************************************************************************)
Alive(g) == goroutines[g].pc \notin {"none", "dead"}

NoChannelClosedTwice == \A ch \in Chans : closes[ch] <= 1

\* a Stop waits for a channel that nothing will close
StopBlockedForever ==
    \E c \in Callers :
        /\ callers[c].pc = "wait"
        /\ closes[callers[c].ch] = 0
        /\ \A g \in Starts : ~Alive(g)
        /\ \A d \in Callers : callers[d].pc # "go"

\* every call has returned and IsRunning() is false
AllReturnedNotRunning == ~spinner.running /\ \A c \in Callers : callers[c].pc = "idle"

NoGoroutineLeft == AllReturnedNotRunning => \A g \in Starts : ~Alive(g)

\* C37: whatever the interleaving of Start and Stop calls on one Spinner, no
\* channel is closed twice, no Stop blocks forever, and when every call has
\* returned with IsRunning() false no animation goroutine is alive.
SpinnerSafeUnderConcurrency ==
    NoChannelClosedTwice /\ ~StopBlockedForever /\ NoGoroutineLeft

\* the same when each call begins after the one before it has returned
SpinnerSafeInSequence ==
    ~overlapped => (NoChannelClosedTwice /\ ~StopBlockedForever /\ NoGoroutineLeft)

\* a Spinner started and stopped twice by calls that follow each other
StartedAndStoppedTwice ==
    /\ ~overlapped
    /\ spinner.made = 2
    /\ AllReturnedNotRunning
    /\ closes[StopChan(2)] = 1


(***************************************************************************)
(* Properties of what the stream filter returns.                           *)
(***************************************************************************)
\* a is what is left of b when some of its units are removed
RECURSIVE LeftOf(_, _)
LeftOf(a, b) ==
    IF a = <<>> THEN TRUE
    ELSE IF b = <<>> THEN FALSE
    ELSE IF a[1] = b[1] THEN LeftOf(Tail(a), Tail(b))
    ELSE LeftOf(a, Tail(b))

\* every chunk of the stream went through Process and Flush was called after the
\* last of them, not before
StreamFlushedAtEnd == pending = <<>> /\ flushes > 0 /\ ~earlyFlush

\* C38: the results of all Process calls followed by the result of Flush are
\* the stream text with some characters removed, in the order of the stream and
\* none twice; they are the stream text itself when it holds no "<think>".
ShownIsStreamText ==
    StreamFlushedAtEnd =>
        /\ LeftOf(shown, fedText)
        /\ (~Contains(fedText, ThinkOpen) => shown = fedText)

\* at every moment: what was returned and what the buffer holds are units of the
\* stream in its order, all of them while no "<think>" has arrived
ShownAndBufferAreStreamText ==
    /\ LeftOf(shown \o filter.buffer, fedText)
    /\ (~Contains(fedText, ThinkOpen) /\ flushes = 0) => shown \o filter.buffer = fedText

\* a stream with a think block went through: its text outside the block was
\* returned, the block was not
BlockRemovedFromStream ==
    /\ StreamFlushedAtEnd
    /\ fedText = Enclosed(<<"H", "e", "l", "l", "o">>, <<"<">>, <<" ", "H", "i", NL>>)
    /\ shown = <<"H", "e", "l", "l", "o", " ", "H", "i", NL>>

\* a stream without "<think>" whose end was still in the buffer at Flush
TagStartFlushed ==
    /\ StreamFlushedAtEnd
    /\ fedText = <<"H", "i", "<", "t", "h">>
    /\ shown = fedText


(***************************************************************************)
(* Properties of cleanResponse.                                            *)
(***************************************************************************)
\* s holds "<think>" with "</think>" somewhere after it
HasThinkSpan(s) ==
    LET p == IndexFrom(s, ThinkOpen, 1)
    IN  p # 0 /\ IndexFrom(s, ThinkClose, p + Len(ThinkOpen)) # 0

\* s is a text that cleanResponse leaves as it is, without "</think>" and
\* without a block
Clean(s) == ~Contains(s, ThinkClose) /\ ~HasThinkSpan(s) /\ cleanResponse(s) = s

\* C39: what cleanResponse returns holds no "</think>" and no complete
\* "<think>...</think>" block, and cleanResponse applied to it returns it
\* unchanged.
CleanResponseIsClean == Clean(cleanResponse(exIn))

\* the same for the responses that hold at most one "</think>" outside the
\* blocks
CleanAfterOneClosingTag ==
    Count(RemoveThinkBlocks(exIn), ThinkClose) <= 1 => Clean(cleanResponse(exIn))

============================================================================
